---------------------------- MODULE Spec2Model ----------------------------
(***************************************************************************)
(* Model of the credential reconciliation layer of OpenHands:              *)
(*   openhands/server/routes/secrets.py          (the endpoints)           *)
(*   openhands/storage/data_models/user_secrets.py (the UserSecrets set)   *)
(*                                                                         *)
(* Strings the code inspects character by character (integration names    *)
(* and ids) are sequences of one-character strings; opaque strings         *)
(* (tokens, hosts, user ids, provider types) are TLA+ strings.             *)
(***************************************************************************)
EXTENDS Integers, Sequences, FiniteSets, TLC

VARIABLES stored, last, gen, ser, svc, procs, settings, heap

vars == <<stored, last, gen, ser, svc, procs, settings, heap>>

(***************************************************************************)
(* Bounds of the model.                                                    *)
(***************************************************************************)
\* longest integration name drawn for generate_integration_id
MaxNameLen == 3
\* most ids already taken when generate_integration_id is called
MaxExisting == 3
\* most integrations a stored set grows to (the code has no limit)
MaxInts == 2
\* most integrations added with generated ids one after the other
MaxAutoAdds == 3
\* most branches of a repository
MaxBranches == 45
\* highest page asked of get_paginated_branches
MaxPage == 3
\* highest per_page asked of get_paginated_branches
MaxPerPage == 20
\* most repositories get_all_repositories returns
MaxRepos == 12
\* most calls of invalidate_legacy_secrets_store for one user
MaxRuns == 3
\* most adapter instances alive at the same time
MaxObjs == 2
\* highest per_page asked of the repository search and listing
MaxReposPerPage == 102
\* most branches of a repository searched by name
MaxNamed == 3
\* highest per_page asked of search_branches
MaxSearchPerPage == 3

None == "None"

----------------------------------------------------------------------------
(***************************************************************************)
(* Character-level string helpers (str.lower, re.sub, str.strip, str()).   *)
(***************************************************************************)
UpperChars == <<"A","B","C","D","E","F","G","H","I","J","K","L","M",
                "N","O","P","Q","R","S","T","U","V","W","X","Y","Z">>
LowerChars == <<"a","b","c","d","e","f","g","h","i","j","k","l","m",
                "n","o","p","q","r","s","t","u","v","w","x","y","z">>
DigitChars == <<"0","1","2","3","4","5","6","7","8","9">>

Range(s) == {s[i] : i \in DOMAIN s}

\* str.lower() on one character
LowerChar(c) ==
    IF \E i \in DOMAIN UpperChars : UpperChars[i] = c
    THEN LowerChars[CHOOSE i \in DOMAIN UpperChars : UpperChars[i] = c]
    ELSE c

\* str.lower()
Lower(s) == [i \in DOMAIN s |-> LowerChar(s[i])]

\* the character class [a-zA-Z0-9] of the regular expression
IsAlnum(c) == c \in Range(UpperChars) \cup Range(LowerChars) \cup Range(DigitChars)

RECURSIVE SkipNonAlnum(_)
SkipNonAlnum(s) ==
    IF s = <<>> \/ IsAlnum(Head(s)) THEN s ELSE SkipNonAlnum(Tail(s))

\* re.sub(r'[^a-zA-Z0-9]+', '-', s): each maximal run becomes one hyphen
RECURSIVE ReSubNonAlnum(_)
ReSubNonAlnum(s) ==
    IF s = <<>> THEN <<>>
    ELSE IF IsAlnum(Head(s)) THEN <<Head(s)>> \o ReSubNonAlnum(Tail(s))
    ELSE <<"-">> \o ReSubNonAlnum(SkipNonAlnum(Tail(s)))

RECURSIVE LStripHyphen(_)
LStripHyphen(s) ==
    IF s # <<>> /\ Head(s) = "-" THEN LStripHyphen(Tail(s)) ELSE s

RECURSIVE RStripHyphen(_)
RStripHyphen(s) ==
    IF s # <<>> /\ s[Len(s)] = "-"
    THEN RStripHyphen(SubSeq(s, 1, Len(s) - 1))
    ELSE s

\* str.strip('-')
StripHyphen(s) == RStripHyphen(LStripHyphen(s))

\* str(n) for n >= 0, as used by the f-string f"{base_id}-{counter}"
RECURSIVE IntToStr(_)
IntToStr(n) ==
    IF n < 10 THEN <<DigitChars[n + 1]>>
    ELSE IntToStr(n \div 10) \o <<DigitChars[(n % 10) + 1]>>

\* the provider type names, as character sequences
TypeChars(t) ==
    CASE t = "github" -> <<"g","i","t","h","u","b">>
      [] t = "gitlab" -> <<"g","i","t","l","a","b">>
      [] OTHER        -> <<>>

----------------------------------------------------------------------------
(***************************************************************************)
(* generate_integration_id (secrets.py 414-434).  existing_ids is only     *)
(* tested for membership, so it is a set here.                             *)
(***************************************************************************)
\* a base_id that keeps leading and trailing hyphens
base_id_unstripped(name, provider_type) ==
    LET b == ReSubNonAlnum(Lower(name))
    IN  IF b = <<>> THEN Lower(TypeChars(provider_type)) ELSE b

\* base_id = re.sub(...).strip('-'), falling back to provider_type.lower()
base_id(name, provider_type) ==
    LET b == StripHyphen(ReSubNonAlnum(Lower(name)))
    IN  IF b = <<>> THEN Lower(TypeChars(provider_type)) ELSE b

\* a loop that appends the first counter without testing the result again
IdLoopOnce(base, candidate_id, counter, existing_ids) ==
    IF candidate_id \in existing_ids
    THEN base \o <<"-">> \o IntToStr(counter)
    ELSE candidate_id

\* the while loop: candidate_id = f"{base_id}-{counter}"; counter += 1
RECURSIVE IdLoop(_, _, _, _)
IdLoop(base, candidate_id, counter, existing_ids) ==
    IF candidate_id \in existing_ids
    THEN IdLoop(base, base \o <<"-">> \o IntToStr(counter), counter + 1, existing_ids)
    ELSE candidate_id

generate_integration_id(name, provider_type, existing_ids) ==
    LET b == base_id(name, provider_type)
    IN  IdLoop(b, b, 1, existing_ids)

----------------------------------------------------------------------------
(***************************************************************************)
(* Data model.  A Python dict is a sequence of entries with distinct keys  *)
(* (insertion order is the iteration order); an optional object is a       *)
(* sequence of length 0 or 1.                                              *)
(***************************************************************************)
ProviderTypes == {"github", "gitlab"}

\* bool(token) is False for None and for SecretStr('')
Falsy(token) == token = None \/ token = ""

\* an id that was not supplied (None); no character sequence equals it
IdNone == <<"None">>

Keys(d) == {d[i].key : i \in DOMAIN d}

\* dict.get(key, None): <<>> when absent, <<entry>> when present
Get(d, key) ==
    IF key \in Keys(d)
    THEN <<d[CHOOSE i \in DOMAIN d : d[i].key = key]>>
    ELSE <<>>

\* d[key] = entry: replaces in place, or appends a new key
Put(d, entry) ==
    IF entry.key \in Keys(d)
    THEN [i \in DOMAIN d |-> IF d[i].key = entry.key THEN entry ELSE d[i]]
    ELSE Append(d, entry)

\* UserSecrets() with the default factories (user_secrets.py 28-41)
EmptyUserSecrets ==
    [provider_tokens |-> <<>>, custom_secrets |-> <<>>, integrations |-> <<>>]

Ids(integrations) == {integrations[i].id : i \in DOMAIN integrations}

\* no two entries of the list carry the same id
DistinctIds(integrations) ==
    \A i, j \in DOMAIN integrations :
        integrations[i].id = integrations[j].id => i = j

(***************************************************************************)
(* Token Validator (openhands.integrations.utils.validate_provider_token): *)
(* an external collaborator.  Each token belongs to one provider; "h1" is  *)
(* a self-hosted GitLab, where a GitHub token does not validate.           *)
(***************************************************************************)
validate_provider_token(token, host) ==
    CASE token \in {"gh0", "gh1", "gh2"} -> IF host = None THEN "github" ELSE None
      [] token \in {"gl0", "gl1"}        -> "gitlab"
      [] OTHER                           -> None

----------------------------------------------------------------------------
(***************************************************************************)
(* UserSecrets serialization and deserialization (user_secrets.py).        *)
(***************************************************************************)
\* pydantic_encoder(SecretStr) is str(SecretStr): the mask, not the value
Masked == "**********"

\* a serializer that emits the value whatever the context says
SecretOutPlain(secret, expose_secrets) == secret

\* get_secret_value() when exposed; str() of an empty SecretStr is ''
SecretOut(secret, expose_secrets) ==
    IF expose_secrets \/ secret = "" THEN secret ELSE Masked

\* provider_tokens_serializer: entries without a token are skipped
provider_tokens_serializer(provider_tokens, expose_secrets) ==
    LET kept == SelectSeq(provider_tokens, LAMBDA e : ~Falsy(e.token))
    IN  [i \in DOMAIN kept |->
            [kept[i] EXCEPT !.token = SecretOut(kept[i].token, expose_secrets)]]

custom_secrets_serializer(custom_secrets, expose_secrets) ==
    [i \in DOMAIN custom_secrets |->
        [custom_secrets[i] EXCEPT
            !.secret = SecretOut(custom_secrets[i].secret, expose_secrets)]]

integrations_serializer(integrations, expose_secrets) ==
    [i \in DOMAIN integrations |->
        [integrations[i] EXCEPT
            !.token = IF Falsy(integrations[i].token) THEN None
                      ELSE SecretOut(integrations[i].token, expose_secrets)]]

\* model_dump(context={'expose_secrets': ...})
model_dump(user_secrets, expose_secrets) ==
    [provider_tokens |->
        provider_tokens_serializer(user_secrets.provider_tokens, expose_secrets),
     custom_secrets |->
        custom_secrets_serializer(user_secrets.custom_secrets, expose_secrets),
     integrations |->
        integrations_serializer(user_secrets.integrations, expose_secrets)]

\* Integration.from_legacy_provider_token: id = provider type name
from_legacy_provider_token(e) ==
    [id |-> TypeChars(e.key), provider_type |-> e.key, name |-> TypeChars(e.key),
     host |-> e.host, token |-> e.token, user_id |-> e.user_id]

\* the values ProviderType(key) accepts; any other key raises ValueError
ProviderTypeEnum == {"github", "gitlab", "bitbucket", "gitea", "enterprise_sso"}

\* a stored value that ProviderToken.from_value, CustomSecret.from_value and
\* Integration.from_dict cannot read: the conversion raises ValueError
Unsupported == "<unsupported>"

\* the entries the loops of the validator keep: a key that is no provider
\* type raises ValueError and the entry is skipped, and so does a value
\* ProviderToken.from_value raises on
ValidEntries(tokens) ==
    SelectSeq(tokens, LAMBDA e : e.key \in ProviderTypeEnum /\ e.token # Unsupported)

\* a custom_secrets loop without the try/except: every entry is taken
AllSecrets(secrets) == secrets

\* the custom_secrets loop: CustomSecret.from_value raising ValueError
\* skips the entry
ValidSecrets(secrets) == SelectSeq(secrets, LAMBDA e : e.secret # Unsupported)

\* the integrations loop: an Integration is appended, a dict is converted
\* by Integration.from_dict and skipped when that raises
ValidItems(items) == SelectSeq(items, LAMBDA item : item.token # Unsupported)

\* a migration that synthesizes whenever there is a legacy map
MigrateAlways(data) ==
    IF data.provider_tokens # <<>>
    THEN LET legacy_tokens == ValidEntries(data.provider_tokens)
         IN  [i \in DOMAIN legacy_tokens |->
                 from_legacy_provider_token(legacy_tokens[i])]
    ELSE data.integrations

\* a validator without the migration block
MigrateNever(data) == data.integrations

\* the migration block of the validator (user_secrets.py 198-221); the
\* guard reads the incoming data, not the converted fields
MigrateLegacy(data) ==
    IF data.integrations = <<>> /\ data.provider_tokens # <<>>
    THEN LET legacy_tokens == ValidEntries(data.provider_tokens)
         IN  [i \in DOMAIN legacy_tokens |->
                 from_legacy_provider_token(legacy_tokens[i])]
    ELSE ValidItems(data.integrations)

\* the model validator run by UserSecrets(**data)
convert_dict_to_mappingproxy(data) ==
    [provider_tokens |-> ValidEntries(data.provider_tokens),
     custom_secrets  |-> ValidSecrets(data.custom_secrets),
     integrations    |-> MigrateLegacy(data)]

(***************************************************************************)
(* Secrets Storage: store() persists the dump with the secrets exposed,    *)
(* load() rebuilds the UserSecrets from it (absent: <<>>).                 *)
(***************************************************************************)
NoSecrets == <<>>

store(user_secrets) == <<model_dump(user_secrets, TRUE)>>

load(st) ==
    IF st = NoSecrets THEN <<>> ELSE <<convert_dict_to_mappingproxy(st[1])>>

\* AutheliaUserAuth.get_provider_tokens: None (<<>>) when nothing is stored
get_provider_tokens(st) ==
    IF load(st) = <<>> THEN <<>> ELSE <<load(st)[1].provider_tokens>>

\* a listing entry that carries the token along
SafeIntegrationWithToken(integration) ==
    [id |-> integration.id, provider_type |-> integration.provider_type,
     name |-> integration.name, host |-> integration.host,
     user_id |-> integration.user_id, token |-> integration.token,
     has_token |-> integration.token # None /\ integration.token # ""]

\* one entry of the listing (secrets.py 377-384)
SafeIntegration(integration) ==
    [id |-> integration.id, provider_type |-> integration.provider_type,
     name |-> integration.name, host |-> integration.host,
     user_id |-> integration.user_id,
     has_token |-> integration.token # None /\ integration.token # ""]

\* GET /integrations (secrets.py 360-396): the 'integrations' of the body
get_integrations(user_secrets) ==
    IF user_secrets = <<>> THEN <<>>
    ELSE [i \in DOMAIN user_secrets[1].integrations |->
             SafeIntegration(user_secrets[1].integrations[i])]

----------------------------------------------------------------------------
(***************************************************************************)
(* The endpoints (secrets.py).  Each handler is an operator from the       *)
(* stored representation st, the request and the fault injected into a     *)
(* collaborator ("none", "validate", "load", "store": the call raises) to  *)
(* the response: status (0: the exception left the handler), whether       *)
(* store() was called and completed, the UserSecrets handed to it, and     *)
(* the id reported in the body.                                            *)
(***************************************************************************)
Faults == {"none", "validate", "load", "store"}

\* a response that wipes the stored set on its way out
RespWiping(status, msg) ==
    [status |-> status, msg |-> msg, stores |-> TRUE,
     value |-> [provider_tokens |-> <<>>, custom_secrets |-> <<>>,
                integrations |-> <<>>],
     id |-> <<"None">>]

Resp(status, msg) ==
    [status |-> status, msg |-> msg, stores |-> FALSE,
     value |-> EmptyUserSecrets, id |-> IdNone]

\* a store that leaves the legacy map out
StoreAndRespondBare(updated_secrets, fault, status, id) ==
    IF fault = "store" THEN Resp(500, <<"generic">>)
    ELSE [status |-> status, msg |-> <<"ok">>, stores |-> TRUE,
          value |-> [updated_secrets EXCEPT !.provider_tokens = <<>>],
          id |-> id]

\* await secrets_store.store(updated_secrets) and the success response
StoreAndRespond(updated_secrets, fault, status, id) ==
    IF fault = "store" THEN Resp(500, <<"generic">>)
    ELSE [status |-> status, msg |-> <<"ok">>, stores |-> TRUE,
          value |-> updated_secrets, id |-> id]

InvalidTokenMsg(token_type) == <<"Invalid token", token_type>>

\* process_token_validation_result (secrets.py 59-67); '' is <<>>
process_token_validation_result(confirmed_token_type, token_type) ==
    IF confirmed_token_type = None \/ confirmed_token_type # token_type
    THEN InvalidTokenMsg(token_type)
    ELSE <<>>

\* one iteration of the loop of check_provider_tokens (secrets.py 77-100)
CheckOneToken(msg, e, existing_provider_tokens) ==
    LET msg1 == IF ~Falsy(e.token)
                THEN process_token_validation_result(
                         validate_provider_token(e.token, e.host), e.key)
                ELSE msg
        existing_token == IF existing_provider_tokens = <<>> THEN <<>>
                          ELSE Get(existing_provider_tokens[1], e.key)
    IN  IF /\ existing_token # <<>>
           /\ existing_token[1].host # e.host
           /\ ~Falsy(existing_token[1].token)
        THEN LET confirmed == validate_provider_token(existing_token[1].token, e.host)
             IN  IF confirmed = None \/ confirmed # e.key
                 THEN process_token_validation_result(confirmed, e.key)
                 ELSE msg1
        ELSE msg1

RECURSIVE CheckLoop(_, _, _)
CheckLoop(msg, entries, existing_provider_tokens) ==
    IF entries = <<>> THEN msg
    ELSE CheckLoop(CheckOneToken(msg, Head(entries), existing_provider_tokens),
                   Tail(entries), existing_provider_tokens)

\* check_provider_tokens (secrets.py 70-102)
check_provider_tokens(incoming_provider_tokens, existing_provider_tokens) ==
    CheckLoop(<<>>, incoming_provider_tokens, existing_provider_tokens)

\* a merge that takes the incoming entry as it is
MergeOneTokenIncoming(e, user_secrets) == e

\* the body of the merge loop of store_provider_tokens (secrets.py 131-139)
MergeOneToken(e, user_secrets) ==
    LET existing_token == Get(user_secrets.provider_tokens, e.key)
        kept == IF /\ e.key \in Keys(user_secrets.provider_tokens)
                   /\ Falsy(e.token)
                   /\ existing_token # <<>>
                   /\ ~Falsy(existing_token[1].token)
                THEN existing_token[1]
                ELSE e
    IN  [kept EXCEPT !.host = e.host]

\* does the request call validate_provider_token at all
ProviderTokensValidated(incoming, existing_provider_tokens) ==
    \E i \in DOMAIN incoming :
        \/ ~Falsy(incoming[i].token)
        \/ /\ existing_provider_tokens # <<>>
           /\ LET x == Get(existing_provider_tokens[1], incoming[i].key)
              IN  x # <<>> /\ x[1].host # incoming[i].host /\ ~Falsy(x[1].token)

\* POST /add-git-providers (secrets.py 105-155)
store_provider_tokens(st, provider_info, fault) ==
    IF fault = "load" THEN Resp(0, <<"raised">>)   \* Depends(get_provider_tokens)
    ELSE IF fault = "validate"
            /\ ProviderTokensValidated(provider_info, get_provider_tokens(st))
    THEN Resp(0, <<"raised">>)                     \* raised outside the try block
    ELSE
    LET provider_err_msg == check_provider_tokens(provider_info, get_provider_tokens(st))
    IN  IF provider_err_msg # <<>> THEN Resp(401, provider_err_msg)
        ELSE
        LET user_secrets == IF load(st) = <<>> THEN EmptyUserSecrets ELSE load(st)[1]
            merged == [i \in DOMAIN provider_info |->
                          MergeOneToken(provider_info[i], user_secrets)]
            updated_secrets == [user_secrets EXCEPT !.provider_tokens = merged]
        IN  StoreAndRespond(updated_secrets, fault, 200, IdNone)

\* an unset that stores a fresh UserSecrets instead of a copy
UnsetCopyFresh(user_secrets) == EmptyUserSecrets

\* user_secrets.model_copy(update={'provider_tokens': {}}) (secrets.py 165)
UnsetCopy(user_secrets) == [user_secrets EXCEPT !.provider_tokens = <<>>]

\* POST /unset-provider-tokens (secrets.py 158-178)
unset_provider_tokens(st, fault) ==
    IF fault = "load" THEN Resp(500, <<"generic">>)
    ELSE IF load(st) = <<>> THEN Resp(200, <<"ok">>)
    ELSE StoreAndRespond(UnsetCopy(load(st)[1]), fault, 200, IdNone)

\* POST /secrets (secrets.py 214-259); the new UserSecrets is built by the
\* constructor, without an integrations argument
create_custom_secret(st, incoming_secret, fault) ==
    IF fault = "load" THEN Resp(500, <<"generic">>)
    ELSE
    LET existing_secrets == load(st)
        custom_secrets == IF existing_secrets = <<>> THEN <<>>
                          ELSE existing_secrets[1].custom_secrets
    IN  IF incoming_secret.key \in Keys(custom_secrets)
        THEN Resp(400, <<"already exists", incoming_secret.key>>)
        ELSE
        LET updated_user_secrets ==
                convert_dict_to_mappingproxy(
                    [custom_secrets  |-> Put(custom_secrets, incoming_secret),
                     provider_tokens |-> IF existing_secrets = <<>> THEN <<>>
                                         ELSE existing_secrets[1].provider_tokens,
                     integrations    |-> <<>>])
        IN  StoreAndRespond(updated_user_secrets, fault, 201, IdNone)

\* UserSecrets(custom_secrets=..., provider_tokens=...): the constructor runs
\* the validator on the two fields it is given
UserSecretsOf(custom_secrets, provider_tokens) ==
    convert_dict_to_mappingproxy(
        [custom_secrets  |-> custom_secrets,
         provider_tokens |-> provider_tokens,
         integrations    |-> <<>>])

\* dict.pop(key)
Pop(d, key) == SelectSeq(d, LAMBDA e : e.key # key)

\* PUT /secrets/{secret_id} (secrets.py 262-311)
update_custom_secret(st, secret_id, incoming_secret, fault) ==
    IF fault = "load" THEN Resp(500, <<"generic">>)
    ELSE IF load(st) = <<>> THEN Resp(200, <<"ok">>)
    ELSE
    LET existing_secrets == load(st)[1]
    IN  IF secret_id \notin Keys(existing_secrets.custom_secrets)
        THEN Resp(404, <<"not found", secret_id>>)
        ELSE
        LET existing_secret == Get(existing_secrets.custom_secrets, secret_id)[1]
            custom_secrets == Pop(existing_secrets.custom_secrets, secret_id)
        IN  IF incoming_secret.key # secret_id
               /\ incoming_secret.key \in Keys(custom_secrets)
            THEN Resp(400, <<"already exists", incoming_secret.key>>)
            ELSE StoreAndRespond(
                     UserSecretsOf(
                         Put(custom_secrets,
                             [key |-> incoming_secret.key,
                              secret |-> existing_secret.secret,
                              description |-> incoming_secret.description]),
                         existing_secrets.provider_tokens),
                     fault, 200, IdNone)

\* DELETE /secrets/{secret_id} (secrets.py 314-352)
delete_custom_secret(st, secret_id, fault) ==
    IF fault = "load" THEN Resp(500, <<"generic">>)
    ELSE IF load(st) = <<>> THEN Resp(200, <<"ok">>)
    ELSE
    LET existing_secrets == load(st)[1]
    IN  IF secret_id \notin Keys(existing_secrets.custom_secrets)
        THEN Resp(404, <<"not found", secret_id>>)
        ELSE StoreAndRespond(
                 UserSecretsOf(Pop(existing_secrets.custom_secrets, secret_id),
                               existing_secrets.provider_tokens),
                 fault, 200, IdNone)

\* validate_integration_token (secrets.py 399-411); '' is <<>>
validate_integration_token(provider_type, token, host) ==
    IF Falsy(token) THEN <<>>
    ELSE LET confirmed_provider_type == validate_provider_token(token, host)
         IN  IF confirmed_provider_type = None
                \/ confirmed_provider_type # provider_type
             THEN InvalidTokenMsg(provider_type)
             ELSE <<>>

\* Integration(id=..., provider_type=..., name=..., host=..., token=..., user_id=...)
Integration(id, integration_data, token) ==
    [id |-> id, provider_type |-> integration_data.provider_type,
     name |-> integration_data.name, host |-> integration_data.host,
     token |-> token, user_id |-> integration_data.user_id]

\* a duplicate test that never finds the id
DuplicateIdNever(integration_id, existing_ids) == FALSE

\* integration_id in existing_ids (secrets.py 475)
DuplicateId(integration_id, existing_ids) == integration_id \in existing_ids

\* an add that starts from an empty set instead of the loaded one
add_integration_fresh(st, integration_data, fault) ==
    StoreAndRespond(
        [provider_tokens |-> <<>>, custom_secrets |-> <<>>,
         integrations |-> <<Integration(integration_data.id, integration_data,
                                        integration_data.token)>>],
        fault, 201, integration_data.id)

\* POST /integrations (secrets.py 437-512)
add_integration(st, integration_data, fault) ==
    IF ~Falsy(integration_data.token) /\ fault = "validate"
    THEN Resp(500, <<"generic">>)
    ELSE
    LET error_msg == validate_integration_token(integration_data.provider_type,
                         integration_data.token, integration_data.host)
    IN  IF ~Falsy(integration_data.token) /\ error_msg # <<>>
        THEN Resp(401, error_msg)
        ELSE IF fault = "load" THEN Resp(500, <<"generic">>)
        ELSE
        LET user_secrets == IF load(st) = <<>> THEN EmptyUserSecrets ELSE load(st)[1]
            existing_integrations == user_secrets.integrations
            existing_ids == Ids(existing_integrations)
            auto == integration_data.id = IdNone \/ integration_data.id = <<>>
            integration_id ==
                IF auto
                THEN generate_integration_id(integration_data.name,
                         integration_data.provider_type, existing_ids)
                ELSE integration_data.id
        IN  IF ~auto /\ DuplicateId(integration_id, existing_ids)
            THEN Resp(400, <<"already exists", integration_id>>)
            ELSE
            LET new_integration ==
                    Integration(integration_id, integration_data, integration_data.token)
                updated_integrations == Append(existing_integrations, new_integration)
            IN  StoreAndRespond(
                    [user_secrets EXCEPT !.integrations = updated_integrations],
                    fault, 201, integration_id)

\* an update that always takes the token of the request
UpdatedTokenIncoming(integration_data, existing) == integration_data.token

\* token = integration_data.token if integration_data.token else existing.token
UpdatedToken(integration_data, existing) ==
    IF ~Falsy(integration_data.token) THEN integration_data.token
    ELSE existing.token

\* the conflict test of update_integration (secrets.py 575-581)
IdConflict(new_integration_id, integration_id, updated_integrations) ==
    /\ new_integration_id # integration_id
    /\ LET kept == SelectSeq(updated_integrations,
                             LAMBDA x : x.id # new_integration_id)
       IN  new_integration_id \in Ids(kept)

\* PUT /integrations/{integration_id} (secrets.py 515-598)
update_integration(st, integration_id, integration_data, fault) ==
    IF ~Falsy(integration_data.token) /\ fault = "validate"
    THEN Resp(500, <<"generic">>)
    ELSE
    LET error_msg == validate_integration_token(integration_data.provider_type,
                         integration_data.token, integration_data.host)
    IN  IF ~Falsy(integration_data.token) /\ error_msg # <<>>
        THEN Resp(401, error_msg)
        ELSE IF fault = "load" THEN Resp(500, <<"generic">>)
        ELSE IF load(st) = <<>> THEN Resp(404, <<"not found", integration_id>>)
        ELSE
        LET user_secrets == load(st)[1]
            existing_integrations == user_secrets.integrations
            new_integration_id == IF integration_data.id # IdNone
                                  THEN integration_data.id ELSE integration_id
            updated_integrations ==
                [i \in DOMAIN existing_integrations |->
                    LET existing == existing_integrations[i]
                    IN  IF existing.id = integration_id
                        THEN Integration(new_integration_id, integration_data,
                                 UpdatedToken(integration_data, existing))
                        ELSE existing]
            found == integration_id \in Ids(existing_integrations)
        IN  IF ~found THEN Resp(404, <<"not found", integration_id>>)
            ELSE IF IdConflict(new_integration_id, integration_id, updated_integrations)
            THEN Resp(400, <<"already exists", new_integration_id>>)
            ELSE StoreAndRespond(
                     [user_secrets EXCEPT !.integrations = updated_integrations],
                     fault, 200, IdNone)

\* a delete that answers 200 whether or not the id is there
delete_integration_silent(st, integration_id, fault) ==
    IF fault = "load" THEN Resp(500, <<"generic">>)
    ELSE IF load(st) = <<>> THEN Resp(200, <<"ok">>)
    ELSE
    LET user_secrets == load(st)[1]
        updated_integrations ==
            SelectSeq(user_secrets.integrations, LAMBDA x : x.id # integration_id)
    IN  StoreAndRespond(
            [user_secrets EXCEPT !.integrations = updated_integrations],
            fault, 200, <<"None">>)

\* DELETE /integrations/{integration_id} (secrets.py 601-648)
delete_integration(st, integration_id, fault) ==
    IF fault = "load" THEN Resp(500, <<"generic">>)
    ELSE IF load(st) = <<>> THEN Resp(404, <<"not found", integration_id>>)
    ELSE
    LET user_secrets == load(st)[1]
        existing_integrations == user_secrets.integrations
        updated_integrations ==
            SelectSeq(existing_integrations, LAMBDA x : x.id # integration_id)
        found == integration_id \in Ids(existing_integrations)
    IN  IF ~found THEN Resp(404, <<"not found", integration_id>>)
        ELSE StoreAndRespond(
                 [user_secrets EXCEPT !.integrations = updated_integrations],
                 fault, 200, IdNone)

----------------------------------------------------------------------------
(***************************************************************************)
(* The Gitea-family adapters (openhands/integrations/gitea, forgejo).      *)
(* cls "forgejo" is ForgejoService, a BaseGiteaService (base_service.py);  *)
(* cls "gitea" is GiteaService (gitea_service.py), which does not derive   *)
(* from it.  A SecretStr token is a string, '' when the instance holds     *)
(* none.  source is the token a credential source behind                   *)
(* get_latest_token() hands out ('': the method as written, which returns  *)
(* self.token).  The log lists, in order, the calls of get_latest_token()  *)
(* and the HTTP requests sent, each with its Authorization token.          *)
(***************************************************************************)
\* the answer of the server: an HTTP status, or no answer at all
TransportFailure == 0

Responses == {200, 401, 404, 500, TransportFailure}

Called == [ev |-> "get_latest_token", auth |-> None]

Sent(authorization) == [ev |-> "send", auth |-> authorization]

\* get_latest_token (base_service.py 88-89, gitea_service.py 90-94)
get_latest_token(service) ==
    IF service.source = "" THEN service.token ELSE service.source

\* BaseGiteaService._get_gitea_headers (base_service.py 66-83): the
\* instance after the call, the calls logged, the Authorization token
\* (None: no such header)
BaseHeaders(service) ==
    LET asked == service.token = ""
        latest_token == get_latest_token(service)
        token == IF asked /\ latest_token # "" THEN latest_token
                 ELSE service.token
    IN  [service |-> [service EXCEPT !.token = token],
         log |-> IF asked THEN <<Called>> ELSE <<>>,
         raised |-> FALSE,
         auth |-> IF token # "" THEN token ELSE None]

\* the dict _get_gitea_headers returns: f'token {token}' is the prefix
\* 'token ' and the value
HeadersDict(token) ==
    [Authorization |-> <<"token ", token>>,
     Accept |-> "application/json",
     ContentType |-> "application/json"]

\* headers built whether or not there is a token
GiteaHeadersLenient(service) ==
    LET token == IF service.external_token_manager
                 THEN service.external_auth_token ELSE service.token
    IN  [service |-> service, log |-> <<>>,
         raised |-> FALSE,
         error |-> "",
         headers |-> <<HeadersDict(token)>>,
         auth |-> token]

\* GiteaService._get_gitea_headers (gitea_service.py 67-84): raises
\* ValueError without a token
GiteaHeaders(service) ==
    LET missing == service.external_token_manager
                   /\ service.external_auth_token = ""
        token == IF service.external_token_manager
                 THEN service.external_auth_token ELSE service.token
    IN  [service |-> service, log |-> <<>>,
         raised |-> missing \/ token = "",
         error |-> IF missing
                   THEN "External auth token is required when external_token_manager is True"
                   ELSE IF token = "" THEN "Gitea token is required"
                   ELSE "",
         headers |-> IF missing \/ token = "" THEN <<>>
                     ELSE <<HeadersDict(token)>>,
         auth |-> token]

\* _has_token_expired
has_token_expired(status_code) == status_code = 401

\* a translation that lets the error of the HTTP client through
TranslateRaw(response) ==
    IF response = TransportFailure \/ response >= 400
    THEN "HTTPError" ELSE "ok"

\* raise_for_status and the except clauses (base_service.py 137, 150-157;
\* gitea_service.py 222, 229-232 with handle_http_status_error and
\* handle_http_error of BaseGitService)
Translate(response) ==
    CASE response = TransportFailure -> "UnknownException"
      [] response = 401              -> "AuthenticationError"
      [] response = 404              -> "ResourceNotFoundError"
      [] response >= 400             -> "UnknownException"
      [] OTHER                       -> "ok"

\* BaseGiteaService._make_request (base_service.py 121-157); r1 is the
\* answer to the request
BaseMakeRequest(service, r1) ==
    LET h == BaseHeaders(service)
    IN  [h.service EXCEPT !.log = h.log \o <<Sent(h.auth)>>,
                          !.final = r1,
                          !.outcome = Translate(r1)]

\* a _make_request that sends the request again as long as it is answered
\* 401: a third time when the second answer is 401 too
GiteaMakeRequestAgain(service, r1, r2) ==
    LET h == GiteaHeaders(service)
    IN  IF h.raised
        THEN [service EXCEPT !.log = <<>>, !.final = TransportFailure,
                             !.outcome = "ValueError", !.error = h.error]
        ELSE IF r1 # TransportFailure /\ has_token_expired(r1)
        THEN IF r2 # TransportFailure /\ has_token_expired(r2)
             THEN [service EXCEPT
                      !.log = <<Sent(h.auth), Called, Sent(h.auth), Called,
                                Sent(h.auth)>>,
                      !.headers = h.headers, !.final = r2,
                      !.outcome = Translate(r2)]
             ELSE [service EXCEPT
                      !.log = <<Sent(h.auth), Called, Sent(h.auth)>>,
                      !.headers = h.headers, !.final = r2,
                      !.outcome = Translate(r2)]
        ELSE [service EXCEPT !.log = <<Sent(h.auth)>>,
                             !.headers = h.headers,
                             !.final = r1,
                             !.outcome = Translate(r1)]

\* GiteaService._make_request (gitea_service.py 190-232); r1 and r2 are
\* the answers to the request and to the request sent again
GiteaMakeRequest(service, r1, r2) ==
    LET h == GiteaHeaders(service)
    IN  IF h.raised
        THEN [service EXCEPT !.log = <<>>, !.final = TransportFailure,
                             !.outcome = "ValueError", !.error = h.error]
        ELSE IF r1 # TransportFailure /\ service.refresh /\ has_token_expired(r1)
        THEN [service EXCEPT
                 !.log = <<Sent(h.auth), Called, Sent(GiteaHeaders(service).auth)>>,
                 !.headers = GiteaHeaders(service).headers,
                 !.final = r2,
                 !.outcome = Translate(r2)]
        ELSE [service EXCEPT !.log = <<Sent(h.auth)>>,
                             !.headers = h.headers,
                             !.final = r1,
                             !.outcome = Translate(r1)]

\* _make_request of the class of the instance
make_request(service, r1, r2) ==
    IF service.cls = "gitea" THEN GiteaMakeRequest(service, r1, r2)
    ELSE BaseMakeRequest(service, r1)

\* a slice that starts one page late
PySliceLate(all, start_index, end_index) ==
    LET n == Len(all)
        lo == IF end_index < n THEN end_index ELSE n
        hi == IF end_index + (end_index - start_index) < n
              THEN end_index + (end_index - start_index) ELSE n
    IN  [i \in 1..(hi - lo) |-> all[lo + i]]

\* all[start_index:end_index] for 0 <= start_index <= end_index
PySlice(all, start_index, end_index) ==
    LET n == Len(all)
        lo == IF start_index < n THEN start_index ELSE n
        hi == IF end_index < n THEN end_index ELSE n
    IN  [i \in 1..(hi - lo) |-> all[lo + i]]

\* the PaginatedBranchesResponse of get_paginated_branches
\* (base_service.py 344-362)
PaginatedBranchesResponse(all_branches, page, per_page) ==
    LET start_index == (page - 1) * per_page
        end_index == start_index + per_page
    IN  [branches |-> PySlice(all_branches, start_index, end_index),
         has_next_page |-> end_index < Len(all_branches),
         current_page |-> page,
         per_page |-> per_page,
         total_count |-> Len(all_branches)]

\* get_paginated_branches: get_branches fetches the whole list with one
\* request (base_service.py 324-342), which may fail
get_paginated_branches(service, page, per_page, r1) ==
    LET s1 == BaseMakeRequest(service, r1)
    IN  [s1 EXCEPT !.op = "get_paginated_branches",
                   !.page = page, !.per_page = per_page,
                   !.response = IF s1.outcome = "ok"
                                THEN <<PaginatedBranchesResponse(
                                           service.remote, page, per_page)>>
                                ELSE <<>>]

----------------------------------------------------------------------------
(***************************************************************************)
(* The requests drawn by the model.                                        *)
(***************************************************************************)
Hosts == {None, "h1"}

\* tokens of an incoming legacy entry: omitted, empty, a GitHub token, a
\* GitLab token
LegacyTokens == {None, "", "gh1", "gl1"}

ProviderTokenEntries(key) ==
    [key : {key}, token : LegacyTokens, host : Hosts, user_id : {None}]

\* POSTProviderModel.provider_tokens: a dict keyed by provider type
ProviderInfos ==
    {<<>>}
    \cup {<<e>> : e \in UNION {ProviderTokenEntries(k) : k \in ProviderTypes}}
    \cup {<<e1, e2>> : e1 \in ProviderTokenEntries("github"),
                       e2 \in ProviderTokenEntries("gitlab")}
    \cup {<<e2, e1>> : e1 \in ProviderTokenEntries("github"),
                       e2 \in ProviderTokenEntries("gitlab")}

\* CustomSecretModel
CustomSecrets == [key : {"s1"}, secret : {"v1"}, description : {""}]

\* ids a caller supplies: none, and two names
CallerIds == {IdNone, <<"a">>, <<"b">>}

\* ids of the path /integrations/{integration_id}
PathIds == {<<"a">>, <<"b">>, <<"a", "-", "1">>}

\* POSTIntegrationModel: a GitHub or a GitLab integration, its token omitted,
\* empty, of that provider, or of the other provider
IntegrationDatas ==
    [id : CallerIds, provider_type : ProviderTypes,
     name : {<<"A", "!">>}, host : {None},
     token : {None, "", "gh1", "gl1"}, user_id : {None}]

\* the collaborator faults injected into a request: all of them into the
\* requests that carry the token "gh1", none into the others
FaultsFor(integration_data) ==
    IF integration_data.token = "gh1" THEN Faults ELSE {"none"}

\* POSTIntegrationModel without a usable id, with names that share a base id
\* ("A!", "a-"), and one without any alphanumeric character
AutoIntegrationDatas ==
    [id : {IdNone, <<>>}, provider_type : ProviderTypes,
     name : {<<"A", "!">>, <<"a", "-">>, <<"!">>}, host : {None},
     token : {None}, user_id : {None}]

----------------------------------------------------------------------------
(***************************************************************************)
(* The state machine: one action per request, the whole handler at once.   *)
(* stored is what the Secrets Storage holds (<<>>: nothing stored); last   *)
(* is the request being answered, with the storage as it was before it,    *)
(* until Reply hands the response to the client.                           *)
(***************************************************************************)
NoRequest ==
    [op |-> "init", req |-> <<>>, path |-> IdNone, fault |-> "none",
     before |-> NoSecrets,
     status |-> 0, msg |-> <<>>, stores |-> FALSE, id |-> IdNone]

\* nothing read or serialized yet
NoSer ==
    [op |-> "init", data0 |-> <<>>, set |-> <<>>, saved |-> <<>>,
     dump |-> <<>>, listing |-> <<>>, expose_secrets |-> FALSE,
     error |-> ""]

\* no request in progress in either worker
NoProc ==
    [pc |-> "idle", op |-> "none", req |-> <<>>, path |-> IdNone,
     snapshot |-> NoSecrets, overlapped |-> FALSE,
     status |-> 0, stores |-> FALSE, written |-> NoSecrets]

NoProcs == [w |-> 0, p |-> <<NoProc, NoProc>>]

\* the SettingsStore before invalidate_legacy_secrets_store was ever called:
\* the secrets_store field of the stored Settings (here without tokens) and
\* what the calls did
NoSettings ==
    [secrets_store |-> [provider_tokens |-> <<>>, custom_secrets |-> <<>>,
                        integrations |-> <<>>],
     runs |-> 0, secrets_stores |-> 0, settings_stores |-> 0,
     returned |-> "init"]

\* 'https://' + host + '/api/v1', as the parts it is put together from
Url(scheme, host) == <<scheme, host, "/api/v1">>

\* the class attributes BASE_URL and token (base_service.py 34-35,
\* gitea_service.py 37-38); ForgejoService has none of its own and reads
\* those of BaseGiteaService
ClassDefaults ==
    [GiteaService     |-> [BASE_URL |-> Url("https://", "gitea.com"),
                           token |-> ""],
     BaseGiteaService |-> [BASE_URL |-> Url("https://", "gitea.com"),
                           token |-> ""]]

\* the classes as loaded and no instance constructed
NoHeap ==
    [classes |-> ClassDefaults, objs |-> <<>>,
     last |-> [op |-> "init", i |-> 0]]

\* an adapter that has served no call yet
NoSvc ==
    [cls |-> "forgejo", token |-> "", refresh |-> FALSE,
     external_token_manager |-> FALSE, external_auth_token |-> "",
     source |-> "", remote |-> <<>>,
     op |-> "init", held |-> "", r1 |-> 0, r2 |-> 0, final |-> 0,
     log |-> <<>>, outcome |-> "none",
     page |-> 0, per_page |-> 0, response |-> <<>>,
     repos |-> <<>>, tasks |-> <<>>,
     headers |-> <<>>, error |-> "",
     limit |-> 0, query |-> <<>>, found |-> <<>>]

NoGen ==
    [name |-> <<>>, provider_type |-> "github", existing_ids |-> {},
     result |-> IdNone, calls |-> 0]

Serve(op, req, path, fault, r) ==
    /\ last.op = "init"
    /\ stored' = IF r.stores THEN store(r.value) ELSE stored
    /\ last' = [op |-> op, req |-> req, path |-> path, fault |-> fault,
                before |-> stored,
                status |-> r.status, msg |-> r.msg, stores |-> r.stores,
                id |-> r.id]
    /\ UNCHANGED <<gen, ser, svc, procs, settings, heap>>

\* the set a request loads from storage st (the empty set when absent)
Loaded(st) == IF load(st) = <<>> THEN EmptyUserSecrets ELSE load(st)[1]

\* the collaborator faults injected into an add-git-providers request: all
\* of them into the requests with at most one entry, none into the others
FaultsForInfo(provider_info) ==
    IF Len(provider_info) <= 1 THEN Faults ELSE {"none"}

StoreProviderTokens ==
    \E provider_info \in ProviderInfos :
      \E fault \in FaultsForInfo(provider_info) :
        Serve("store_provider_tokens", provider_info, IdNone, fault,
              store_provider_tokens(stored, provider_info, fault))

UnsetProviderTokens ==
    \E fault \in Faults \ {"validate"} :
        Serve("unset_provider_tokens", <<>>, IdNone, fault,
              unset_provider_tokens(stored, fault))

CreateCustomSecret ==
    \E incoming_secret \in CustomSecrets, fault \in Faults \ {"validate"} :
        Serve("create_custom_secret", incoming_secret, IdNone, fault,
              create_custom_secret(stored, incoming_secret, fault))

AddIntegration ==
    \E integration_data \in IntegrationDatas :
      \E fault \in FaultsFor(integration_data) :
        /\ Len(Loaded(stored).integrations) < MaxInts
        /\ Serve("add_integration", integration_data, IdNone, fault,
                 add_integration(stored, integration_data, fault))

AddIntegrationAuto ==
    \E integration_data \in AutoIntegrationDatas, fault \in {"none", "store"} :
        /\ Len(Loaded(stored).integrations) < MaxAutoAdds
        /\ Serve("add_integration", integration_data, IdNone, fault,
                 add_integration(stored, integration_data, fault))

UpdateIntegration ==
    \E integration_id \in PathIds, integration_data \in IntegrationDatas :
      \E fault \in FaultsFor(integration_data) :
        Serve("update_integration", integration_data, integration_id, fault,
              update_integration(stored, integration_id, integration_data, fault))

DeleteIntegration ==
    \E integration_id \in PathIds, fault \in Faults \ {"validate"} :
        Serve("delete_integration", <<>>, integration_id, fault,
              delete_integration(stored, integration_id, fault))

\* the response reaches the client
Reply ==
    /\ last.op # "init"
    /\ last' = NoRequest
    /\ UNCHANGED <<stored, gen, ser, svc, procs, settings, heap>>

(***************************************************************************)
(* Stored sets a user can have when the requests of a specification start: *)
(* nothing, a legacy map written by /add-git-providers, and sets with      *)
(* integrations and a custom secret.                                       *)
(***************************************************************************)
LegacyGithub == [key |-> "github", token |-> "gh0", host |-> None, user_id |-> "u1"]
LegacyGitlab == [key |-> "gitlab", token |-> "gl0", host |-> "h1", user_id |-> None]
SecretS1 == [key |-> "s1", secret |-> "v1", description |-> ""]
IntegrationA ==
    [id |-> <<"a">>, provider_type |-> "github", name |-> <<"A", "!">>,
     host |-> None, token |-> "gh1", user_id |-> None]

InitInt ==
    /\ stored = NoSecrets
    /\ last = NoRequest
    /\ procs = NoProcs
    /\ settings = NoSettings
    /\ heap = NoHeap
    /\ gen = NoGen
    /\ ser = NoSer
    /\ svc = NoSvc

NextInt ==
    \/ AddIntegration
    \/ UpdateIntegration
    \/ DeleteIntegration
    \/ Reply

\* the integration endpoints
SpecInt == InitInt /\ [][NextInt]_vars

InitAuto ==
    /\ stored \in {NoSecrets,
                   store([EmptyUserSecrets EXCEPT
                             !.provider_tokens = <<LegacyGithub>>])}
    /\ last = NoRequest
    /\ procs = NoProcs
    /\ settings = NoSettings
    /\ heap = NoHeap
    /\ gen = NoGen
    /\ ser = NoSer
    /\ svc = NoSvc

NextAuto ==
    \/ AddIntegrationAuto
    \/ Reply

\* nothing but additions with generated ids
SpecAuto == InitAuto /\ [][NextAuto]_vars

InitProv ==
    /\ stored \in {NoSecrets,
                   store([EmptyUserSecrets EXCEPT
                             !.integrations = <<IntegrationA>>]),
                   store([provider_tokens |-> <<LegacyGithub, LegacyGitlab>>,
                          custom_secrets |-> <<SecretS1>>,
                          integrations |-> <<IntegrationA>>])}
    /\ last = NoRequest
    /\ procs = NoProcs
    /\ settings = NoSettings
    /\ heap = NoHeap
    /\ gen = NoGen
    /\ ser = NoSer
    /\ svc = NoSvc

NextProv ==
    \/ StoreProviderTokens
    \/ UnsetProviderTokens
    \/ Reply

\* the legacy provider-token endpoints
SpecProv == InitProv /\ [][NextProv]_vars

(***************************************************************************)
(* generate_integration_id on its own: gen holds the arguments of a call   *)
(* and its result; Reserve adds the result to the ids taken, as            *)
(* add_integration does by appending the new integration.                  *)
(***************************************************************************)
GenAlphabet == {"A", "b", "-", " "}

RECURSIVE SeqsUpTo(_, _)
SeqsUpTo(S, n) ==
    IF n = 0 THEN {<<>>}
    ELSE LET shorter == SeqsUpTo(S, n - 1)
         IN  shorter \cup {Append(q, c) : q \in shorter, c \in S}

MyGitHub == <<"M","y"," ","G","i","t","H","u","b","!","!">>

GenNames == SeqsUpTo(GenAlphabet, MaxNameLen) \cup {MyGitHub}

\* ids already in the set before the first call
SeedIds == {<<"a">>, <<"a","-","1">>, <<"a","-","2">>, <<"g","i","t","h","u","b">>}

InitGen ==
    /\ stored = NoSecrets
    /\ last = NoRequest
    /\ procs = NoProcs
    /\ settings = NoSettings
    /\ heap = NoHeap
    /\ ser = NoSer
    /\ svc = NoSvc
    /\ gen \in [name : GenNames, provider_type : ProviderTypes,
                existing_ids : SUBSET SeedIds, result : {IdNone}, calls : {0}]

Generate ==
    /\ gen.result = IdNone
    /\ gen' = [gen EXCEPT
                  !.result = generate_integration_id(gen.name, gen.provider_type,
                                                     gen.existing_ids),
                  !.calls = gen.calls + 1]
    /\ UNCHANGED <<stored, last, ser, svc, procs, settings, heap>>

Reserve ==
    /\ gen.result # IdNone
    /\ Cardinality(gen.existing_ids) < MaxExisting
    /\ gen' = [gen EXCEPT !.existing_ids = gen.existing_ids \cup {gen.result},
                          !.result = IdNone]
    /\ UNCHANGED <<stored, last, ser, svc, procs, settings, heap>>

NextGen ==
    \/ Generate
    \/ Reserve

SpecGen == InitGen /\ [][NextGen]_vars

(***************************************************************************)
(* The integration endpoints on a user whose stored set was written        *)
(* before integrations existed: a legacy map and no integrations list.     *)
(***************************************************************************)
MigPathIds == {TypeChars("github"), TypeChars("gitlab"), <<"a">>}

UpdateMigrated ==
    \E integration_id \in MigPathIds, integration_data \in IntegrationDatas :
        Serve("update_integration", integration_data, integration_id, "none",
              update_integration(stored, integration_id, integration_data, "none"))

DeleteMigrated ==
    \E integration_id \in MigPathIds, fault \in Faults \ {"validate"} :
        Serve("delete_integration", <<>>, integration_id, fault,
              delete_integration(stored, integration_id, fault))

InitMig ==
    /\ stored \in {store([EmptyUserSecrets EXCEPT
                             !.provider_tokens = <<LegacyGithub>>]),
                   store([EmptyUserSecrets EXCEPT
                             !.provider_tokens = <<LegacyGithub, LegacyGitlab>>,
                             !.custom_secrets = <<SecretS1>>])}
    /\ last = NoRequest
    /\ procs = NoProcs
    /\ settings = NoSettings
    /\ heap = NoHeap
    /\ gen = NoGen
    /\ ser = NoSer
    /\ svc = NoSvc

NextMig ==
    \/ AddIntegration
    \/ UpdateMigrated
    \/ DeleteMigrated
    \/ Reply

SpecMig == InitMig /\ [][NextMig]_vars

(***************************************************************************)
(* UserSecrets serialization on its own: the storage holds a               *)
(* representation (data0), which is loaded, dumped with and without the    *)
(* expose_secrets context, listed by GET /integrations, and stored back.   *)
(***************************************************************************)
\* entries of a stored legacy map: with a token or with a host only, under
\* a provider type or under a key that is none
SerEntries(key) ==
    [key : {key}, token : {None, "t1", "t2"}, host : {None, "h1"},
     user_id : {None}]

SerKeys == {"github", "gitlab", "bogus"}

SerMaps ==
    {<<>>}
    \cup {<<e>> : e \in UNION {SerEntries(k) : k \in SerKeys}}
    \cup {<<e1, e2>> : e1 \in SerEntries("github"),
                        e2 \in SerEntries("gitlab") \cup SerEntries("bogus")}
    \cup {<<e2, e1>> : e1 \in SerEntries("github"),
                        e2 \in SerEntries("gitlab") \cup SerEntries("bogus")}

IntegrationB ==
    [id |-> <<"b">>, provider_type |-> "gitlab", name |-> <<"B">>,
     host |-> "h1", token |-> None, user_id |-> "u2"]

IntegrationE ==
    [id |-> <<"e">>, provider_type |-> "github", name |-> <<"E">>,
     host |-> None, token |-> "", user_id |-> None]

SerIntegrations ==
    {<<>>, <<IntegrationA>>, <<IntegrationA, IntegrationB>>, <<IntegrationE>>}

SerCustoms == {<<>>, <<SecretS1>>}

SerDatas ==
    [provider_tokens : SerMaps, custom_secrets : SerCustoms,
     integrations : SerIntegrations]

InitSer ==
    /\ \/ stored = NoSecrets /\ ser = NoSer
       \/ \E data \in SerDatas :
             stored = <<data>> /\ ser = [NoSer EXCEPT !.data0 = <<data>>]
    /\ last = NoRequest
    /\ procs = NoProcs
    /\ settings = NoSettings
    /\ heap = NoHeap
    /\ gen = NoGen
    /\ svc = NoSvc

\* secrets_store.load()
Load ==
    /\ ser' = [ser EXCEPT !.op = "load", !.set = load(stored)]
    /\ UNCHANGED <<stored, last, gen, svc, procs, settings, heap>>

\* secrets_store.store(user_secrets) of the set loaded last
Store ==
    /\ ser.set # <<>>
    /\ stored' = store(ser.set[1])
    /\ ser' = [ser EXCEPT !.op = "store", !.saved = ser.set]
    /\ UNCHANGED <<last, gen, svc, procs, settings, heap>>

\* user_secrets.model_dump(context={'expose_secrets': expose_secrets})
Dump ==
    \E expose_secrets \in BOOLEAN :
        /\ ser.set # <<>>
        /\ ser' = [ser EXCEPT !.op = "dump",
                              !.dump = <<model_dump(ser.set[1], expose_secrets)>>,
                              !.expose_secrets = expose_secrets]
        /\ UNCHANGED <<stored, last, gen, svc, procs, settings, heap>>

\* GET /integrations; Depends(get_user_secrets) loads the set
GetIntegrations ==
    /\ ser' = [ser EXCEPT !.op = "get_integrations",
                          !.listing = get_integrations(load(stored))]
    /\ UNCHANGED <<stored, last, gen, svc, procs, settings, heap>>

NextSer ==
    \/ Load
    \/ Store
    \/ Dump
    \/ GetIntegrations

SpecSer == InitSer /\ [][NextSer]_vars

(***************************************************************************)
(* One request of any endpoint on each of the stored sets a user can       *)
(* have: nothing, a legacy map, integrations, custom secrets, and both     *)
(* representations side by side.                                           *)
(***************************************************************************)
\* CustomSecretWithoutValueModel: a new name and description
SecretRenames == [key : {"s1", "s2"}, description : {"", "d"}]

SecretIds == {"s1", "s2"}

SecretS2 == [key |-> "s2", secret |-> "v2", description |-> "d"]

UpdateCustomSecret ==
    \E secret_id \in SecretIds, incoming_secret \in SecretRenames,
       fault \in Faults \ {"validate"} :
        Serve("update_custom_secret", incoming_secret, IdNone, fault,
              update_custom_secret(stored, secret_id, incoming_secret, fault))

DeleteCustomSecret ==
    \E secret_id \in SecretIds, fault \in Faults \ {"validate"} :
        Serve("delete_custom_secret", <<>>, IdNone, fault,
              delete_custom_secret(stored, secret_id, fault))

OneStored ==
    {NoSecrets,
     store([EmptyUserSecrets EXCEPT !.provider_tokens = <<LegacyGithub>>]),
     store([EmptyUserSecrets EXCEPT
               !.provider_tokens = <<LegacyGithub, LegacyGitlab>>,
               !.custom_secrets = <<SecretS1>>]),
     store([EmptyUserSecrets EXCEPT !.integrations = <<IntegrationA>>]),
     store([EmptyUserSecrets EXCEPT !.integrations = <<IntegrationB>>,
                                    !.custom_secrets = <<SecretS1, SecretS2>>]),
     store([provider_tokens |-> <<>>,
            custom_secrets |-> <<SecretS1>>,
            integrations |-> <<IntegrationA, IntegrationB>>]),
     store([provider_tokens |-> <<LegacyGithub, LegacyGitlab>>,
            custom_secrets |-> <<SecretS1>>,
            integrations |-> <<IntegrationA>>])}

InitOne ==
    /\ stored \in OneStored
    /\ last = NoRequest
    /\ procs = NoProcs
    /\ settings = NoSettings
    /\ heap = NoHeap
    /\ gen = NoGen
    /\ ser = NoSer
    /\ svc = NoSvc

NextOne ==
    \/ StoreProviderTokens
    \/ UnsetProviderTokens
    \/ CreateCustomSecret
    \/ UpdateCustomSecret
    \/ DeleteCustomSecret
    \/ AddIntegration
    \/ UpdateIntegration
    \/ DeleteIntegration
    \/ UpdateMigrated
    \/ DeleteMigrated

SpecOne == InitOne /\ [][NextOne]_vars

(***************************************************************************)
(* Two requests of one user served at the same time.  A handler awaits     *)
(* secrets_store.load(), changes the set it got and awaits                 *)
(* secrets_store.store(); it holds no lock in between, so the other        *)
(* request's load and store can fall between the two.  ConcLoad is a       *)
(* request up to its load, ConcStore the rest of the handler.              *)
(***************************************************************************)
Workers == {1, 2}

OtherWorker(i) == 3 - i

\* the requests the two workers draw from: two adds with different ids, an
\* add-git-providers, and an update of integration 'a'
ConcRequests ==
    {[op |-> "add_integration", path |-> IdNone,
      req |-> [id |-> <<"a">>, provider_type |-> "github",
               name |-> <<"A", "!">>, host |-> None, token |-> "gh1",
               user_id |-> None]],
     [op |-> "add_integration", path |-> IdNone,
      req |-> [id |-> <<"b">>, provider_type |-> "gitlab",
               name |-> <<"A", "!">>, host |-> None, token |-> "gl1",
               user_id |-> None]],
     [op |-> "store_provider_tokens", path |-> IdNone,
      req |-> <<[key |-> "github", token |-> "gh1", host |-> None,
                 user_id |-> None]>>],
     [op |-> "update_integration", path |-> <<"a">>,
      req |-> [id |-> IdNone, provider_type |-> "gitlab",
               name |-> <<"a", "-">>, host |-> None, token |-> "gl1",
               user_id |-> None]]}

\* the handler of request q run on the set st it loaded
Handle(st, q) ==
    CASE q.op = "add_integration" -> add_integration(st, q.req, "none")
      [] q.op = "store_provider_tokens" ->
             store_provider_tokens(st, q.req, "none")
      [] q.op = "update_integration" ->
             update_integration(st, q.path, q.req, "none")

\* a handler that reads the storage again when it stores
SnapshotFresh(i) == stored

\* the set worker i works on: the one its load returned
SnapshotOf(i) == procs.p[i].snapshot

ConcLoad(i) ==
    /\ procs.p[i].pc = "idle"
    /\ \E q \in ConcRequests :
         LET overlap == procs.p[OtherWorker(i)].pc = "loaded"
         IN  procs' =
               [procs EXCEPT
                  !.p[i] = [@ EXCEPT !.pc = "loaded", !.op = q.op,
                                     !.req = q.req, !.path = q.path,
                                     !.snapshot = stored,
                                     !.overlapped = overlap],
                  !.p[OtherWorker(i)] =
                      [@ EXCEPT !.overlapped = @ \/ overlap]]
    /\ UNCHANGED <<stored, last, gen, ser, svc, settings, heap>>

ConcStore(i) ==
    /\ procs.p[i].pc = "loaded"
    /\ LET r == Handle(SnapshotOf(i), procs.p[i])
       IN  /\ stored' = IF r.stores THEN store(r.value) ELSE stored
           /\ procs' =
                 [procs EXCEPT
                    !.w = IF r.stores THEN i ELSE @,
                    !.p[i] = [@ EXCEPT !.pc = "done", !.status = r.status,
                                       !.stores = r.stores,
                                       !.written = IF r.stores
                                                   THEN store(r.value)
                                                   ELSE NoSecrets]]
    /\ UNCHANGED <<last, gen, ser, svc, settings, heap>>

InitConc ==
    /\ stored \in {NoSecrets,
                   store([EmptyUserSecrets EXCEPT
                             !.integrations = <<IntegrationA>>])}
    /\ last = NoRequest
    /\ procs = NoProcs
    /\ settings = NoSettings
    /\ heap = NoHeap
    /\ gen = NoGen
    /\ ser = NoSer
    /\ svc = NoSvc

NextConc == \E i \in Workers : ConcLoad(i) \/ ConcStore(i)

SpecConc == InitConc /\ [][NextConc]_vars

(***************************************************************************)
(* The move of the provider tokens from the Settings to the Secrets        *)
(* Storage.  The SettingsStore holds the Settings of the user, of which    *)
(* the secrets_store field is kept; every call is made with the Settings   *)
(* loaded from it.                                                         *)
(***************************************************************************)
\* a copy of the settings that keeps the secrets_store it had
KeptSecretsSettings(settings_data) == settings_data

\* settings.model_copy(update={'secrets_store': UserSecrets()}), as the
\* SettingsStore writes it
invalidated_secrets_settings(settings_data) ==
    model_dump(convert_dict_to_mappingproxy(EmptyUserSecrets), TRUE)

\* what one call of invalidate_legacy_secrets_store does (secrets.py 35-56)
\* with the Settings read from the SettingsStore sett and the Secrets
\* Storage st; fault names the store that raises
invalidate_legacy_secrets_store(sett, st, fault) ==
    LET secrets_store == convert_dict_to_mappingproxy(sett.secrets_store)
    IN  IF Len(secrets_store.provider_tokens) > 0
        THEN LET user_secrets ==
                     UserSecretsOf(<<>>, secrets_store.provider_tokens)
             IN  IF fault = "store"
                 THEN [stored |-> st, secrets_store |-> sett.secrets_store,
                       secrets_stores |-> 0, settings_stores |-> 0,
                       returned |-> "raised"]
                 ELSE IF fault = "settings_store"
                 THEN [stored |-> store(user_secrets),
                       secrets_store |-> sett.secrets_store,
                       secrets_stores |-> 1, settings_stores |-> 0,
                       returned |-> "raised"]
                 ELSE [stored |-> store(user_secrets),
                       secrets_store |->
                           invalidated_secrets_settings(sett.secrets_store),
                       secrets_stores |-> 1, settings_stores |-> 1,
                       returned |-> "user_secrets"]
        ELSE [stored |-> st, secrets_store |-> sett.secrets_store,
              secrets_stores |-> 0, settings_stores |-> 0,
              returned |-> "None"]

InvalidateLegacy ==
    /\ settings.runs < MaxRuns
    /\ \E fault \in {"none", "store", "settings_store"} :
         LET r == invalidate_legacy_secrets_store(settings, stored, fault)
         IN  /\ stored' = r.stored
             /\ settings' =
                   [secrets_store |-> r.secrets_store,
                    runs |-> settings.runs + 1,
                    secrets_stores |->
                        settings.secrets_stores + r.secrets_stores,
                    settings_stores |->
                        settings.settings_stores + r.settings_stores,
                    returned |-> r.returned]
    /\ UNCHANGED <<last, gen, ser, svc, procs, heap>>

\* Settings written before the Secrets Storage existed: a provider-token
\* map, no custom secrets and no integrations
LegacySettings ==
    [provider_tokens : SerMaps, custom_secrets : {<<>>},
     integrations : {<<>>}]

InitLegacy ==
    /\ stored \in {NoSecrets,
                   store([EmptyUserSecrets EXCEPT
                             !.integrations = <<IntegrationA>>,
                             !.custom_secrets = <<SecretS1>>])}
    /\ last = NoRequest
    /\ procs = NoProcs
    /\ \E data \in LegacySettings :
          settings = [NoSettings EXCEPT !.secrets_store = data]
    /\ heap = NoHeap
    /\ gen = NoGen
    /\ ser = NoSer
    /\ svc = NoSvc

NextLegacy == InvalidateLegacy

SpecLegacy == InitLegacy /\ [][NextLegacy]_vars

(***************************************************************************)
(* Adapter objects.  heap.classes holds the class attributes, heap.objs    *)
(* the instances: the class of each, its constructor arguments and its     *)
(* __dict__ (token and BASE_URL: <<>> while the instance has no attribute  *)
(* of its own and reads the class's).  A base_domain is None (<<>>), a     *)
(* host (<<host>>) or a scheme and a host (<<scheme, host>>).              *)
(***************************************************************************)
\* the class whose attributes an instance of cls falls back to
Owner(cls) == IF cls = "GiteaService" THEN "GiteaService" ELSE "BaseGiteaService"

\* self.<name>: the instance attribute, else the class attribute
Attr(h, i, name) ==
    IF h.objs[i][name] # <<>> THEN h.objs[i][name][1]
    ELSE h.classes[Owner(h.objs[i].cls)][name]

\* an assignment that lands on the class
SetAttrOnClass(h, i, name, value) ==
    [h EXCEPT !.classes[Owner(h.objs[i].cls)][name] = value]

\* self.<name> = value
SetAttr(h, i, name, value) == [h EXCEPT !.objs[i][name] = <<value>>]

\* base_domain.startswith(('http://', 'https://'))
HasScheme(base_domain) ==
    Len(base_domain) = 2 /\ base_domain[1] \in {"http://", "https://"}

\* the BASE_URL assigned by BaseGiteaService.__init__ (base_service.py
\* 54-61) for a base_domain that is given
BaseUrlOf(base_domain) ==
    IF HasScheme(base_domain) THEN base_domain \o <<"/api/v1">>
    ELSE <<"https://">> \o base_domain \o <<"/api/v1">>

\* the BASE_URL assigned by GiteaService.__init__ (gitea_service.py 56-58)
GiteaUrlOf(base_domain) == <<"https://">> \o base_domain \o <<"/api/v1">>

\* __init__ of the class cls run on the fresh instance at position i
init(h, i, cls, token, base_domain) ==
    LET h1 == IF token # "" THEN SetAttr(h, i, "token", token) ELSE h
    IN  IF cls = "GiteaService"
        THEN IF base_domain # <<>> /\ base_domain # <<"gitea.com">>
             THEN SetAttr(h1, i, "BASE_URL", GiteaUrlOf(base_domain))
             ELSE h1
        ELSE \* ForgejoService.__init__ (forgejo_service.py 22-33)
             LET domain == IF base_domain = <<>> THEN <<"codeberg.org">>
                           ELSE base_domain
             IN  SetAttr(h1, i, "BASE_URL", BaseUrlOf(domain))

\* the base_domain arguments drawn
BaseDomains ==
    {<<>>, <<"gitea.com">>, <<"git.example.com">>,
     <<"http://", "git.local">>, <<"https://", "git.example.com">>}

Construct ==
    /\ Len(heap.objs) < MaxObjs
    /\ \E cls \in {"GiteaService", "ForgejoService"}, token \in {"", "tok"},
          base_domain \in BaseDomains, source \in {"", "new"} :
         LET i == Len(heap.objs) + 1
             fresh == [cls |-> cls, base_domain |-> base_domain,
                       source |-> source, token |-> <<>>, BASE_URL |-> <<>>]
             h == [heap EXCEPT !.objs = Append(@, fresh),
                               !.last = [op |-> "construct", i |-> i]]
         IN  heap' = init(h, i, cls, token, base_domain)
    /\ UNCHANGED <<stored, last, gen, ser, svc, procs, settings>>

\* _get_gitea_headers of instance i: the one of BaseGiteaService stores the
\* token get_latest_token() returns when the instance has none
\* (base_service.py 68-71), the one of GiteaService assigns nothing
get_gitea_headers(h, i) ==
    LET latest_token == IF h.objs[i].source # "" THEN h.objs[i].source
                        ELSE Attr(h, i, "token")
    IN  IF /\ h.objs[i].cls # "GiteaService"
           /\ Attr(h, i, "token") = ""
           /\ latest_token # ""
        THEN SetAttr(h, i, "token", latest_token)
        ELSE h

GetHeaders ==
    /\ heap.last.op # "headers"
    /\ \E i \in DOMAIN heap.objs :
         heap' = [get_gitea_headers(heap, i) EXCEPT
                     !.last = [op |-> "headers", i |-> i]]
    /\ UNCHANGED <<stored, last, gen, ser, svc, procs, settings>>

InitObjs ==
    /\ stored = NoSecrets
    /\ last = NoRequest
    /\ procs = NoProcs
    /\ settings = NoSettings
    /\ heap = NoHeap
    /\ gen = NoGen
    /\ ser = NoSer
    /\ svc = NoSvc

NextObjs == Construct \/ GetHeaders

SpecObjs == InitObjs /\ [][NextObjs]_vars

(***************************************************************************)
(* An adapter instance serving calls: MakeRequest is one _make_request,    *)
(* from the construction of the headers to the result or the exception;    *)
(* the server's answers to the request and to a request sent again are     *)
(* drawn with it.                                                          *)
(***************************************************************************)
InitSvc ==
    /\ stored = NoSecrets
    /\ last = NoRequest
    /\ procs = NoProcs
    /\ settings = NoSettings
    /\ heap = NoHeap
    /\ gen = NoGen
    /\ ser = NoSer
    /\ \E cls \in {"forgejo", "gitea"}, token \in {"", "tok"},
          refresh \in BOOLEAN, external_token_manager \in BOOLEAN,
          external_auth_token \in {"", "ext"}, source \in {"", "new"} :
          svc = [NoSvc EXCEPT !.cls = cls, !.token = token,
                              !.refresh = refresh,
                              !.external_token_manager = external_token_manager,
                              !.external_auth_token = external_auth_token,
                              !.source = source]

MakeRequest ==
    \E r1 \in Responses, r2 \in Responses :
        /\ svc' = [make_request(svc, r1, r2) EXCEPT
                      !.op = "_make_request", !.held = svc.token,
                      !.r1 = r1, !.r2 = r2]
        /\ UNCHANGED <<stored, last, gen, ser, procs, settings, heap>>

NextSvc == MakeRequest

SpecSvc == InitSvc /\ [][NextSvc]_vars

(***************************************************************************)
(* get_paginated_branches of a Forgejo adapter on repositories of 0 to     *)
(* MaxBranches branches, one call per repository; branch i of the          *)
(* repository is the number i.                                             *)
(***************************************************************************)
InitPage ==
    /\ stored = NoSecrets
    /\ last = NoRequest
    /\ procs = NoProcs
    /\ settings = NoSettings
    /\ heap = NoHeap
    /\ gen = NoGen
    /\ ser = NoSer
    /\ \E n \in 0..MaxBranches :
          svc = [NoSvc EXCEPT !.token = "tok", !.remote = [i \in 1..n |-> i]]

GetPaginatedBranches ==
    \E page \in 1..MaxPage, per_page \in 1..MaxPerPage, r1 \in {200, 404} :
        /\ svc.op = "init"
        /\ svc' = [get_paginated_branches(svc, page, per_page, r1) EXCEPT
                      !.held = svc.token, !.r1 = r1]
        /\ UNCHANGED <<stored, last, gen, ser, procs, settings, heap>>

NextPage == GetPaginatedBranches

SpecPage == InitPage /\ [][NextPage]_vars

(***************************************************************************)
(* Suggested tasks: the open issues and pull requests of the user's first  *)
(* repositories.  A repository of the remote is its full_name (a number),  *)
(* what its issues and pulls endpoints answer (kind: both answer, the      *)
(* issues fetch fails, the pulls fetch fails) and the items they return.   *)
(***************************************************************************)
\* repositories[:10]
ScanLimit == 10

\* items as the API returns them: complete, without a title, without a number
ItemLists ==
    <<  <<[number |-> 1, title |-> "t"]>>,
        <<[number |-> 2, title |-> ""], [number |-> 3, title |-> "u"]>>,
        <<[number |-> 0, title |-> "z"], [number |-> 4, title |-> "v"]>>,
        <<>>  >>

\* issue.get('number') and issue.get('title')
Usable(item) == item.number # 0 /\ item.title # ""

\* one SuggestedTask per usable item
TasksOf(task_type, repo, items) ==
    LET usable == SelectSeq(items, Usable)
    IN  [k \in DOMAIN usable |->
            [task_type |-> task_type, repo |-> repo.full_name,
             issue_number |-> usable[k].number, title |-> usable[k].title]]

\* the body of the try for one repository (base_service.py 262-308): the
\* requests it sends, the tasks it appends, and whether it raised
ScanRepo(repo) ==
    IF repo.kind = "issues_fail"
    THEN [log |-> <<<<"issues", repo.full_name>>>>, tasks |-> <<>>,
          raised |-> TRUE]
    ELSE IF repo.kind = "prs_fail"
    THEN [log |-> <<<<"issues", repo.full_name>>, <<"pulls", repo.full_name>>>>,
          tasks |-> TasksOf("OPEN_ISSUE", repo, repo.issues),
          raised |-> TRUE]
    ELSE [log |-> <<<<"issues", repo.full_name>>, <<"pulls", repo.full_name>>>>,
          tasks |-> TasksOf("OPEN_ISSUE", repo, repo.issues)
                    \o TasksOf("OPEN_PR", repo, repo.prs),
          raised |-> FALSE]

\* a scan that stops at the first repository that raises
ExceptAbort(one, rest) ==
    IF one.raised THEN [log |-> one.log, tasks |-> one.tasks]
    ELSE [log |-> one.log \o rest.log, tasks |-> one.tasks \o rest.tasks]

\* except Exception: log a warning and continue with the next repository
ExceptContinue(one, rest) ==
    [log |-> one.log \o rest.log, tasks |-> one.tasks \o rest.tasks]

\* the for loop over the repositories from position k on
RECURSIVE ScanLoop(_, _)
ScanLoop(repositories, k) ==
    IF k > Len(repositories) THEN [log |-> <<>>, tasks |-> <<>>]
    ELSE ExceptContinue(ScanRepo(repositories[k]),
                        ScanLoop(repositories, k + 1))

\* get_suggested_tasks (base_service.py 253-314); r1 is the answer to the
\* repository listing, whose failure is not caught
get_suggested_tasks(service, r1) ==
    IF r1 # 200
    THEN [service EXCEPT !.outcome = Translate(r1),
                         !.log = <<<<"repos", 0>>>>, !.tasks = <<>>]
    ELSE LET scan == ScanLoop(PySlice(service.repos, 0, ScanLimit), 1)
         IN  [service EXCEPT !.outcome = "ok",
                             !.log = <<<<"repos", 0>>>> \o scan.log,
                             !.tasks = scan.tasks]

\* positions whose endpoints may fail: the first two, the last scanned and
\* the first not scanned
FailingPositions == {1, 2, ScanLimit, ScanLimit + 1}

RepoKinds == {"ok", "issues_fail", "prs_fail"}

\* n repositories; the items of a repository go by its position
Remotes ==
    UNION {
      {[k \in 1..n |->
           [full_name |-> k,
            kind |-> IF k \in FailingPositions THEN kinds[k] ELSE "ok",
            issues |-> ItemLists[(k % 4) + 1],
            prs |-> ItemLists[((k + 1) % 4) + 1]]] :
         kinds \in [FailingPositions -> RepoKinds]} :
      n \in 0..MaxRepos}

InitTasks ==
    /\ stored = NoSecrets
    /\ last = NoRequest
    /\ procs = NoProcs
    /\ settings = NoSettings
    /\ heap = NoHeap
    /\ gen = NoGen
    /\ ser = NoSer
    /\ \E repos \in Remotes :
          svc = [NoSvc EXCEPT !.token = "tok", !.repos = repos]

GetSuggestedTasks ==
    /\ svc.op = "init"
    /\ \E r1 \in {200, 401, 500} :
          svc' = [get_suggested_tasks(svc, r1) EXCEPT
                     !.op = "get_suggested_tasks", !.r1 = r1]
    /\ UNCHANGED <<stored, last, gen, ser, procs, settings, heap>>

NextTasks == GetSuggestedTasks

SpecTasks == InitTasks /\ [][NextTasks]_vars

(***************************************************************************)
(* Repository search and listing: the 'limit' parameter of the request.    *)
(***************************************************************************)
\* Gitea's max per page
GiteaMaxLimit == 100

\* a limit that passes per_page on as it is
LimitUnclamped(per_page) == per_page

\* min(per_page, 100)
Limit(per_page) == IF per_page < GiteaMaxLimit THEN per_page ELSE GiteaMaxLimit

\* search_repositories (base_service.py 181-203) and get_paginated_repos
\* (226-251): one request with 'limit': min(per_page, 100)
repos_request(service, op, page, per_page, r1) ==
    [BaseMakeRequest(service, r1) EXCEPT
        !.op = op, !.page = page, !.per_page = per_page,
        !.limit = Limit(per_page)]

\* get_all_repositories (base_service.py 205-224): 'limit': 100
get_all_repositories(service, r1) ==
    [BaseMakeRequest(service, r1) EXCEPT
        !.op = "get_all_repositories", !.limit = GiteaMaxLimit]

SearchRepositories ==
    /\ svc.op = "init"
    /\ \E per_page \in 0..MaxReposPerPage, r1 \in {200, 500} :
         svc' = [repos_request(svc, "search_repositories", 0, per_page, r1)
                    EXCEPT !.r1 = r1]
    /\ UNCHANGED <<stored, last, gen, ser, procs, settings, heap>>

GetPaginatedRepos ==
    /\ svc.op = "init"
    /\ \E page \in 1..MaxPage, per_page \in 0..MaxReposPerPage,
          r1 \in {200, 500} :
         svc' = [repos_request(svc, "get_paginated_repos", page, per_page, r1)
                    EXCEPT !.r1 = r1]
    /\ UNCHANGED <<stored, last, gen, ser, procs, settings, heap>>

GetAllRepositories ==
    /\ svc.op = "init"
    /\ \E r1 \in {200, 500} :
         svc' = [get_all_repositories(svc, r1) EXCEPT !.r1 = r1]
    /\ UNCHANGED <<stored, last, gen, ser, procs, settings, heap>>

InitRepos ==
    /\ stored = NoSecrets
    /\ last = NoRequest
    /\ procs = NoProcs
    /\ settings = NoSettings
    /\ heap = NoHeap
    /\ gen = NoGen
    /\ ser = NoSer
    /\ svc = [NoSvc EXCEPT !.token = "tok"]

NextRepos == SearchRepositories \/ GetPaginatedRepos \/ GetAllRepositories

SpecRepos == InitRepos /\ [][NextRepos]_vars

(***************************************************************************)
(* Branch search by name.  A branch is its name, a sequence of characters. *)
(***************************************************************************)
\* sub in s, for strings
Contains(s, sub) ==
    \E k \in 0..(Len(s) - Len(sub)) : SubSeq(s, k + 1, k + Len(sub)) = sub

\* a filter that compares the characters as they are
MatchesExact(query, name) == Contains(name, query)

\* query.lower() in branch.name.lower()
Matches(query, name) == Contains(Lower(name), Lower(query))

\* search_branches (base_service.py 364-377); get_branches fetches the
\* whole list with one request, which may fail
search_branches(service, query, per_page, r1) ==
    LET s1 == BaseMakeRequest(service, r1)
        matching_branches ==
            SelectSeq(service.remote, LAMBDA branch : Matches(query, branch))
    IN  [s1 EXCEPT !.op = "search_branches",
                   !.query = query, !.per_page = per_page,
                   !.found = IF s1.outcome = "ok"
                             THEN <<PySlice(matching_branches, 0, per_page)>>
                             ELSE <<>>]

\* branch names and queries drawn: upper and lower case, one and two
\* characters, the empty query
BranchNames == {<<"a">>, <<"A", "b">>, <<"b", "a">>, <<"B">>}

Queries == {<<>>, <<"a">>, <<"A">>, <<"a", "B">>, <<"b", "b">>}

RECURSIVE NamedLists(_)
NamedLists(n) ==
    IF n = 0 THEN {<<>>}
    ELSE NamedLists(n - 1)
         \cup {Append(l, b) : l \in {x \in NamedLists(n - 1) : Len(x) = n - 1},
                              b \in BranchNames}

SearchBranches ==
    /\ svc.op = "init"
    /\ \E query \in Queries, per_page \in 0..MaxSearchPerPage,
          r1 \in {200, 404} :
         svc' = [search_branches(svc, query, per_page, r1) EXCEPT !.r1 = r1]
    /\ UNCHANGED <<stored, last, gen, ser, procs, settings, heap>>

InitSearch ==
    /\ stored = NoSecrets
    /\ last = NoRequest
    /\ procs = NoProcs
    /\ settings = NoSettings
    /\ heap = NoHeap
    /\ gen = NoGen
    /\ ser = NoSer
    /\ \E all_branches \in NamedLists(MaxNamed) :
          svc = [NoSvc EXCEPT !.token = "tok", !.remote = all_branches]

NextSearch == SearchBranches

SpecSearch == InitSearch /\ [][NextSearch]_vars

----------------------------------------------------------------------------
(***************************************************************************)
(* Properties.                                                             *)
(***************************************************************************)
\* the integrations list and the legacy map the storage holds
StoredInts == IF stored = NoSecrets THEN <<>> ELSE stored[1].integrations
StoredTokens == IF stored = NoSecrets THEN <<>> ELSE stored[1].provider_tokens
StoredCustom == IF stored = NoSecrets THEN <<>> ELSE stored[1].custom_secrets

\* the set the request being answered loaded
BeforeSet == Loaded(last.before)

\* a supplied token that is empty, or validates against the claimed type
TokenAccepted(integration_data) ==
    \/ Falsy(integration_data.token)
    \/ validate_provider_token(integration_data.token, integration_data.host)
           = integration_data.provider_type

(* C1: the stored integrations list never holds two entries with the same  *)
(* id, whatever add, update and delete requests were served.               *)
C1_IdsStayUnique == DistinctIds(StoredInts)

(* C2: an update whose candidate id differs from the path id and is the id *)
(* of another existing integration is answered 400 and stores nothing.     *)
C2_UpdateCollisionRejected ==
    ( /\ last.op = "update_integration"
      /\ last.fault = "none"
      /\ TokenAccepted(last.req)
      /\ last.req.id # IdNone
      /\ last.req.id # last.path
      /\ last.path \in Ids(BeforeSet.integrations)
      /\ last.req.id \in Ids(BeforeSet.integrations) )
    => (last.status = 400 /\ ~last.stores /\ stored = last.before)

\* an add that supplies a non-empty id which the loaded set already holds
AddOfExistingId ==
    /\ last.op = "add_integration"
    /\ last.req.id # IdNone
    /\ last.req.id # <<>>
    /\ last.req.id \in Ids(BeforeSet.integrations)

(* C3 as stated: an add with a caller-supplied id that already exists is   *)
(* always answered 400, and the stored set is unchanged.                   *)
C3_DuplicateAddAlways400 ==
    (AddOfExistingId /\ last.fault = "none")
    => (last.status = 400 /\ stored = last.before)

(* C3 as amended: an add with a caller-supplied id that already exists     *)
(* never stores and leaves the stored set unchanged; it is answered 401    *)
(* when a supplied token fails validation (the token is validated before   *)
(* the id is looked up), 500 when validation or load raises, and 400       *)
(* otherwise.                                                              *)
C3_DuplicateAddRejected ==
    AddOfExistingId
    => /\ ~last.stores
       /\ stored = last.before
       /\ last.status =
            IF ~Falsy(last.req.token) /\ last.fault = "validate" THEN 500
            ELSE IF ~TokenAccepted(last.req) THEN 401
            ELSE IF last.fault = "load" THEN 500
            ELSE 400
       /\ last.status = 400 => last.msg = <<"already exists", last.req.id>>

C3_Witness ==
    /\ AddOfExistingId
    /\ last.status = 400
    /\ last.req.token = "gl1"
    /\ last.req.provider_type = "gitlab"

(* C4: in any sequence of additions with empty ids, each generated id      *)
(* differs from every id already in the set, so the stored ids are         *)
(* pairwise distinct.                                                      *)
C4_GeneratedIdsUnique ==
    /\ DistinctIds(StoredInts)
    /\ (last.op = "add_integration" /\ last.stores)
       => /\ last.id \notin Ids(BeforeSet.integrations)
          /\ StoredInts = Append(BeforeSet.integrations,
                 Integration(last.id, last.req,
                     IF Falsy(last.req.token) THEN None ELSE last.req.token))

\* three additions, two of them with the same name, the third id generated
\* with the counter 2
C4_Witness ==
    /\ last.op = "add_integration"
    /\ last.stores
    /\ last.id = <<"a", "-", "2">>
    /\ \E i, j \in DOMAIN StoredInts :
          i # j /\ StoredInts[i].name = StoredInts[j].name

\* the positions of the alphanumeric characters of s, ascending
AlnumPositions(s) ==
    SelectSeq([i \in 1..Len(s) |-> i], LAMBDA i : IsAlnum(s[i]))

RECURSIVE Flatten(_)
Flatten(pieces) ==
    IF pieces = <<>> THEN <<>> ELSE Head(pieces) \o Flatten(Tail(pieces))

\* the lower-cased alphanumeric characters of name in order, with one
\* hyphen between two of them that are not adjacent in name
ExpectedBase(name) ==
    LET l == Lower(name)
        p == AlnumPositions(l)
    IN  Flatten([k \in DOMAIN p |->
                    IF k > 1 /\ p[k] > p[k - 1] + 1
                    THEN <<"-", l[p[k]]>> ELSE <<l[p[k]]>>])

Suffixed(base, k) == base \o <<"-">> \o IntToStr(k)

(* C5: generate_integration_id returns the base (the lower-cased name with *)
(* each run of non-alphanumeric characters as one hyphen and no hyphen at  *)
(* either end, or the lower-cased provider type when that is empty) if it  *)
(* is free, else base-k for the smallest k >= 1 that is free; 'My          *)
(* GitHub!!' gives my-github, then my-github-1.                            *)
C5_GeneratedIdShape ==
    gen.result # IdNone
    => LET e == ExpectedBase(gen.name)
           base == IF e = <<>> THEN Lower(TypeChars(gen.provider_type)) ELSE e
           n == Cardinality(gen.existing_ids)
       IN  /\ base \notin gen.existing_ids => gen.result = base
           /\ base \in gen.existing_ids
              => \E k \in 1..(n + 1) :
                    /\ gen.result = Suffixed(base, k)
                    /\ gen.result \notin gen.existing_ids
                    /\ \A j \in 1..(k - 1) : Suffixed(base, j) \in gen.existing_ids
           /\ gen.name = MyGitHub
              => gen.result =
                   IF gen.calls = 1
                   THEN <<"m","y","-","g","i","t","h","u","b">>
                   ELSE Suffixed(<<"m","y","-","g","i","t","h","u","b">>,
                                 gen.calls - 1)

\* a name with hyphens at both ends whose base is taken, as is base-1
C5_Witness ==
    /\ gen.name = <<"-", "A", " ">>
    /\ gen.existing_ids = {<<"a">>, <<"a","-","1">>}
    /\ gen.result = <<"a","-","2">>

\* the entries of the request being answered, and the providers it names
ReqKeys == {last.req[i].key : i \in DOMAIN last.req}

(* C6: when an add-git-providers entry for provider P has an empty token   *)
(* and the stored set holds a token for P, the stored entry for P after    *)
(* the request still has that token (and user id); only its host may       *)
(* differ, and then it is the incoming host.                               *)
C6_OmittedTokenPreserved ==
    last.op = "store_provider_tokens"
    => \A i \in DOMAIN last.req :
          LET e == last.req[i]
              old == Get(BeforeSet.provider_tokens, e.key)
              new == Get(StoredTokens, e.key)
          IN  (Falsy(e.token) /\ old # <<>> /\ ~Falsy(old[1].token))
              => /\ new # <<>>
                 /\ new[1].token = old[1].token
                 /\ new[1].user_id = old[1].user_id
                 /\ new[1].host = IF last.stores THEN e.host ELSE old[1].host

\* a stored request that omits the token of a provider and moves its host
C6_Witness ==
    /\ last.op = "store_provider_tokens"
    /\ last.stores
    /\ \E i \in DOMAIN last.req :
          LET e == last.req[i]
              old == Get(BeforeSet.provider_tokens, e.key)
          IN  /\ Falsy(e.token)
              /\ old # <<>>
              /\ old[1].token = "gl0"
              /\ old[1].host # e.host
              /\ Get(StoredTokens, e.key)[1].token = "gl0"

\* a supplied non-empty token that does not validate against its claimed type
InvalidEntry(e) ==
    ~Falsy(e.token) /\ validate_provider_token(e.token, e.host) # e.key

(* C7: an add-git-providers request with at least one supplied non-empty   *)
(* token that does not validate against its provider type is answered 401  *)
(* with a message naming that provider, and nothing is stored, however     *)
(* many entries the request has and in whatever order.                     *)
C7_InvalidTokenRejected ==
    ( /\ last.op = "store_provider_tokens"
      /\ last.fault = "none"
      /\ \E i \in DOMAIN last.req : InvalidEntry(last.req[i]) )
    => /\ last.status = 401
       /\ ~last.stores
       /\ stored = last.before
       /\ \E i \in DOMAIN last.req :
             InvalidEntry(last.req[i]) /\ last.msg = InvalidTokenMsg(last.req[i].key)

(* C8: a legacy entry of the stored set whose provider type is absent from *)
(* the incoming map is still present, unchanged, after the request (stated *)
(* for a request that names at least one other provider).                  *)
C8_AbsentProviderKept ==
    (last.op = "store_provider_tokens" /\ last.req # <<>>)
    => \A i \in DOMAIN BeforeSet.provider_tokens :
          LET e == BeforeSet.provider_tokens[i]
          IN  e.key \notin ReqKeys => Get(StoredTokens, e.key) = <<e>>

(* C9: unset-provider-tokens stores a set whose provider_tokens map is     *)
(* empty and whose custom_secrets and integrations are those of the set it *)
(* loaded; when nothing is stored for the user it performs no store.       *)
C9_UnsetClearsOnlyTokens ==
    last.op = "unset_provider_tokens"
    => /\ last.before = NoSecrets => (~last.stores /\ stored = NoSecrets)
       /\ (last.before # NoSecrets /\ last.fault = "none") => last.stores
       /\ last.stores
          => /\ StoredTokens = <<>>
             /\ StoredCustom = BeforeSet.custom_secrets
             /\ StoredInts = BeforeSet.integrations
       /\ ~last.stores => stored = last.before

\* an unset of a set that holds tokens, a custom secret and an integration
C9_Witness ==
    /\ last.op = "unset_provider_tokens"
    /\ last.stores
    /\ BeforeSet.provider_tokens # <<>>
    /\ StoredCustom # <<>>
    /\ StoredInts # <<>>
    /\ StoredTokens = <<>>

(* C10: an update with an empty or absent token leaves the token of the    *)
(* updated integration as it was; with a non-empty token, which has        *)
(* validated, the stored token is the supplied one.                        *)
C10_UpdateToken ==
    (last.op = "update_integration" /\ last.stores)
    => /\ TokenAccepted(last.req)
       /\ DOMAIN StoredInts = DOMAIN BeforeSet.integrations
       /\ \A i \in DOMAIN StoredInts :
             BeforeSet.integrations[i].id = last.path
             => StoredInts[i].token =
                  IF last.req.token \in {None, ""}
                  THEN BeforeSet.integrations[i].token
                  ELSE last.req.token

\* an update with an empty token of an integration that holds a token
C10_Witness ==
    /\ last.op = "update_integration"
    /\ last.stores
    /\ last.req.token = ""
    /\ \E i \in DOMAIN StoredInts :
          /\ BeforeSet.integrations[i].id = last.path
          /\ BeforeSet.integrations[i].token = "gh1"
          /\ StoredInts[i].token = "gh1"

(* C11: once a load has synthesized integrations from the legacy map and  *)
(* an integration request has stored the set, no later load synthesizes    *)
(* again: the stored set is not one with an empty integrations list and a  *)
(* legacy map, and a deleted integration is not in the set a later load    *)
(* yields.                                                                 *)
Synthesizes(st) ==
    /\ st # NoSecrets
    /\ st[1].integrations = <<>>
    /\ ValidEntries(st[1].provider_tokens) # <<>>

C11_MigratedOnce ==
    (last.stores /\ Synthesizes(last.before))
    => /\ ~Synthesizes(stored)
       /\ last.op = "delete_integration"
          => last.path \notin Ids(Loaded(stored).integrations)

\* a list of entries with an empty token ('' or None) written as None
NoTokenAsNone(entries) ==
    [i \in DOMAIN entries |->
        [entries[i] EXCEPT !.token = IF Falsy(@) THEN None ELSE @]]

(* C12: loading a representation whose integrations list is not empty      *)
(* yields exactly that list, so a set loaded, stored and loaded again      *)
(* holds the integrations the first load gave (an empty token is stored    *)
(* as no token).                                                           *)
C12_MigrationIdempotent ==
    (ser.op = "load" /\ ser.set # <<>>)
    => /\ StoredInts # <<>> => ser.set[1].integrations = StoredInts
       /\ (ser.saved # <<>> /\ ser.saved[1].integrations # <<>>)
          => ser.set[1].integrations
                 = NoTokenAsNone(ser.saved[1].integrations)

\* a second load of a set that holds integrations besides a legacy map
C12_Witness ==
    /\ ser.op = "load"
    /\ ser.saved # <<>>
    /\ ser.set # <<>>
    /\ ser.set[1].integrations = <<IntegrationA, IntegrationB>>
    /\ Keys(ser.set[1].provider_tokens) = {"github", "gitlab"}

\* the first load of the representation the storage held at the start
FirstLoad == ser.op = "load" /\ ser.saved = <<>> /\ ser.data0 # <<>>

(* C13: loading a representation with a legacy map and no integrations     *)
(* yields one integration per entry under a provider type, in the order of *)
(* the map, with the type name as id and the host, user id and token of    *)
(* the entry; the entries of the map are kept as they are.                 *)
C13_LegacyMigrated ==
    (FirstLoad /\ ser.data0[1].integrations = <<>>
               /\ ser.data0[1].provider_tokens # <<>>)
    => LET legacy == ValidEntries(ser.data0[1].provider_tokens)
           ints == ser.set[1].integrations
       IN  /\ ser.set[1].provider_tokens = legacy
           /\ DOMAIN ints = DOMAIN legacy
           /\ \A i \in DOMAIN ints :
                 /\ ints[i].id = TypeChars(legacy[i].key)
                 /\ ints[i].provider_type = legacy[i].key
                 /\ ints[i].host = legacy[i].host
                 /\ ints[i].user_id = legacy[i].user_id
                 /\ ints[i].token = legacy[i].token

\* a legacy map of two entries, one of them with a host, is migrated
C13_Witness ==
    /\ FirstLoad
    /\ ser.data0[1].integrations = <<>>
    /\ Len(ser.data0[1].provider_tokens) = 2
    /\ Len(ser.set[1].integrations) = 2
    /\ ser.set[1].integrations[2].id = TypeChars("github")
    /\ ser.set[1].integrations[2].host = "h1"
    /\ ser.set[1].integrations[2].token = "t2"

\* the set with every non-empty secret value replaced by the same value
Redact(user_secrets) ==
    [provider_tokens |->
        [i \in DOMAIN user_secrets.provider_tokens |->
            [user_secrets.provider_tokens[i] EXCEPT
                !.token = IF Falsy(@) THEN @ ELSE "x"]],
     custom_secrets |->
        [i \in DOMAIN user_secrets.custom_secrets |->
            [user_secrets.custom_secrets[i] EXCEPT
                !.secret = IF @ = "" THEN @ ELSE "x"]],
     integrations |->
        [i \in DOMAIN user_secrets.integrations |->
            [user_secrets.integrations[i] EXCEPT
                !.token = IF Falsy(@) THEN @ ELSE "x"]]]

(* C14: the listing of GET /integrations has one entry per integration of  *)
(* the loaded set, in order, made of id, provider_type, name, host,        *)
(* user_id and has_token and of nothing else; has_token is true iff the    *)
(* token is present and not empty; and the listing is the same for a set   *)
(* that differs only in its non-empty secret values.                       *)
C14_ListingHidesTokens ==
    ser.op = "get_integrations"
    => LET ints == Loaded(stored).integrations
       IN  /\ DOMAIN ser.listing = DOMAIN ints
           /\ \A i \in DOMAIN ints :
                 /\ DOMAIN ser.listing[i] =
                        {"id", "provider_type", "name", "host", "user_id",
                         "has_token"}
                 /\ ser.listing[i].id = ints[i].id
                 /\ ser.listing[i].provider_type = ints[i].provider_type
                 /\ ser.listing[i].name = ints[i].name
                 /\ ser.listing[i].host = ints[i].host
                 /\ ser.listing[i].user_id = ints[i].user_id
                 /\ ser.listing[i].has_token = ~Falsy(ints[i].token)
           /\ ser.listing = get_integrations(<<Redact(Loaded(stored))>>)

\* a listing of an integration with a token and of one without
C14_Witness ==
    /\ ser.op = "get_integrations"
    /\ Len(ser.listing) = 2
    /\ ser.listing[1].has_token
    /\ ~ser.listing[2].has_token
    /\ Loaded(stored).integrations[1].token = "gh1"

\* the non-empty secret values a set holds
PlainSecrets(user_secrets) ==
    ({user_secrets.provider_tokens[i].token :
          i \in DOMAIN user_secrets.provider_tokens}
     \cup {user_secrets.custom_secrets[i].secret :
          i \in DOMAIN user_secrets.custom_secrets}
     \cup {user_secrets.integrations[i].token :
          i \in DOMAIN user_secrets.integrations}) \ {None, ""}

\* the values a dump carries in its token and secret fields
EmittedSecrets(dumped) ==
    {dumped.provider_tokens[i].token : i \in DOMAIN dumped.provider_tokens}
    \cup {dumped.custom_secrets[i].secret : i \in DOMAIN dumped.custom_secrets}
    \cup {dumped.integrations[i].token : i \in DOMAIN dumped.integrations}

(* C15: a dump made without expose_secrets carries none of the set's       *)
(* secret values, and is the same for a set that differs only in its       *)
(* non-empty secret values; the values appear only in a dump made with     *)
(* expose_secrets.                                                         *)
C15_DumpMasksSecrets ==
    (ser.op = "dump" /\ ~ser.expose_secrets)
    => /\ EmittedSecrets(ser.dump[1]) \cap PlainSecrets(ser.set[1]) = {}
       /\ ser.dump[1] = model_dump(Redact(ser.set[1]), FALSE)

\* a masked dump of a set with a provider token, a custom secret and an
\* integration token
C15_Witness ==
    /\ ser.op = "dump"
    /\ ~ser.expose_secrets
    /\ ser.set[1].integrations # <<>>
    /\ ser.set[1].integrations[1].token = "gh1"
    /\ ser.set[1].custom_secrets = <<SecretS1>>
    /\ \E i \in DOMAIN ser.set[1].provider_tokens :
          ser.set[1].provider_tokens[i].token = "t1"
    /\ EmittedSecrets(ser.dump[1]) = {Masked}

\* every legacy entry of the set carries a token or a host
EntriesCarryData(user_secrets) ==
    \A i \in DOMAIN user_secrets.provider_tokens :
        \/ ~Falsy(user_secrets.provider_tokens[i].token)
        \/ user_secrets.provider_tokens[i].host # None

(* C16: a set that was stored and loaded again is the set that was stored: *)
(* the same legacy entries, those with a host and no token among them, the *)
(* same custom secrets and the same integrations (an empty token is        *)
(* stored as no token).                                                    *)
C16_StoreLoadRoundTrip ==
    (ser.op = "load" /\ ser.saved # <<>> /\ EntriesCarryData(ser.saved[1]))
    => /\ NoTokenAsNone(ser.set[1].provider_tokens)
              = NoTokenAsNone(ser.saved[1].provider_tokens)
       /\ ser.set[1].custom_secrets = ser.saved[1].custom_secrets
       /\ NoTokenAsNone(ser.set[1].integrations)
              = NoTokenAsNone(ser.saved[1].integrations)

\* the HTTP requests of the log
Sends(log) == SelectSeq(log, LAMBDA e : e.ev = "send")

\* the calls of get_latest_token() made after the first request was sent
RefreshesAfterSend(log) ==
    {i \in DOMAIN log :
        /\ log[i].ev = "get_latest_token"
        /\ \E j \in 1..(i - 1) : log[j].ev = "send"}

(* C17: when the request of an adapter that holds a token is answered 401  *)
(* and the request sent again would be answered 401 too, the adapter calls *)
(* get_latest_token() once, sends the request a second time (two requests  *)
(* in all) and raises AuthenticationError.                                 *)
C17_RefreshOnceRetryOnce ==
    ( /\ svc.op = "_make_request"
      /\ svc.held # ""
      /\ svc.outcome # "ValueError"
      /\ svc.r1 = 401
      /\ svc.r2 = 401 )
    => /\ Len(Sends(svc.log)) = 2
       /\ Cardinality(RefreshesAfterSend(svc.log)) = 1
       /\ svc.outcome = "AuthenticationError"

(* C18: a call that sent a request ends by the answer to the last request  *)
(* sent: 401 raises AuthenticationError, 404 ResourceNotFoundError, any    *)
(* other error status and a transport failure UnknownException; nothing    *)
(* else is raised.                                                         *)
C18_ErrorsTranslated ==
    (svc.op = "_make_request" /\ Sends(svc.log) # <<>>)
    => /\ svc.final = IF Len(Sends(svc.log)) = 2 THEN svc.r2 ELSE svc.r1
       /\ svc.outcome \in {"ok", "AuthenticationError",
                            "ResourceNotFoundError", "UnknownException"}
       /\ svc.outcome = "AuthenticationError" <=> svc.final = 401
       /\ svc.outcome = "ResourceNotFoundError" <=> svc.final = 404
       /\ svc.outcome = "UnknownException"
              <=> svc.final \in {500, TransportFailure}
       /\ svc.outcome = "ok" <=> svc.final = 200

\* a request sent again after a 401 gets no answer
C18_Witness ==
    /\ svc.op = "_make_request"
    /\ svc.cls = "gitea"
    /\ Len(Sends(svc.log)) = 2
    /\ svc.final = TransportFailure
    /\ svc.outcome = "UnknownException"

(* C19: an adapter that holds no token calls get_latest_token() before it  *)
(* sends its first request; a token it obtains is stored on the instance   *)
(* and is the Authorization token of that request.                         *)
C19_MissingTokenFetched ==
    ( /\ svc.op = "_make_request"
      /\ svc.held = ""
      /\ ~svc.external_token_manager )
    => /\ svc.log # <<>>
       /\ svc.log[1] = Called
       /\ svc.source # ""
          => /\ svc.token = svc.source
             /\ Len(svc.log) >= 2
             /\ svc.log[2] = Sent(svc.source)

\* the length of the slice the claim describes
SliceLen(n, page, per_page) ==
    LET lo == (page - 1) * per_page
        hi == IF page * per_page < n THEN page * per_page ELSE n
    IN  IF hi > lo THEN hi - lo ELSE 0

(* C20: for a repository of N branches, page >= 1 and per_page >= 1,        *)
(* get_paginated_branches returns the branches at the (0-based) positions  *)
(* (page-1)*per_page .. min(page*per_page, N)-1 in their order, with        *)
(* total_count = N and has_next_page iff page*per_page < N.                 *)
C20_ClientSidePagination ==
    (svc.op = "get_paginated_branches" /\ svc.response # <<>>)
    => LET n == Len(svc.remote)
           resp == svc.response[1]
       IN  /\ Len(resp.branches) = SliceLen(n, svc.page, svc.per_page)
           /\ \A i \in DOMAIN resp.branches :
                 resp.branches[i] =
                     svc.remote[(svc.page - 1) * svc.per_page + i]
           /\ resp.total_count = n
           /\ resp.has_next_page <=> (svc.page * svc.per_page < n)

\* 45 branches, page 2, per_page 20: branches 21..40, a next page
C20_Witness ==
    /\ svc.op = "get_paginated_branches"
    /\ svc.response # <<>>
    /\ Len(svc.remote) = 45
    /\ svc.page = 2
    /\ svc.per_page = 20
    /\ Len(svc.response[1].branches) = 20
    /\ svc.response[1].branches[1] = 21
    /\ svc.response[1].branches[20] = 40
    /\ svc.response[1].has_next_page
    /\ svc.response[1].total_count = 45

\* the endpoints that reconcile the legacy map and the integrations list
ReconciliationOps ==
    {"store_provider_tokens", "add_integration", "update_integration",
     "delete_integration"}

(* C23: a request to add-git-providers or to add, update or delete an      *)
(* integration that is answered 401, 400 or 404 has called no store, and   *)
(* the stored set is what it was before the request.                       *)
C23_RejectionsStoreNothing ==
    (last.op \in ReconciliationOps /\ last.status \in {400, 401, 404})
    => (~last.stores /\ stored = last.before)

\* an add-git-providers request with a token of the wrong provider is
\* answered 401 while a set is stored
C23_Witness ==
    /\ last.op = "store_provider_tokens"
    /\ last.status = 401
    /\ last.msg = InvalidTokenMsg("github")
    /\ StoredInts # <<>>
    /\ StoredTokens # <<>>

\* an update or a delete of an id the loaded set does not hold (an absent
\* stored set holds none)
AbsentIdCase ==
    /\ last.op \in {"update_integration", "delete_integration"}
    /\ last.path \notin Ids(BeforeSet.integrations)

(* C24 as stated: an update or a delete of an absent id is answered 404    *)
(* with a message naming the id.                                           *)
C24_AbsentIdAlways404 ==
    (AbsentIdCase /\ last.fault = "none")
    => (last.status = 404 /\ last.msg = <<"not found", last.path>>)

(* C24 as amended: an update or a delete of an absent id stores nothing;   *)
(* a delete is answered 404 naming the id; an update is answered 401 when  *)
(* it carries a token that fails validation (the token is validated        *)
(* before the set is loaded) and 404 naming the id otherwise; a            *)
(* collaborator that raises before the lookup gives 500.                   *)
C24_AbsentIdRejected ==
    AbsentIdCase
    => /\ ~last.stores
       /\ stored = last.before
       /\ last.status =
            IF last.op = "delete_integration"
            THEN (IF last.fault = "load" THEN 500 ELSE 404)
            ELSE IF ~Falsy(last.req.token) /\ last.fault = "validate" THEN 500
            ELSE IF ~TokenAccepted(last.req) THEN 401
            ELSE IF last.fault = "load" THEN 500
            ELSE 404
       /\ last.status = 404 => last.msg = <<"not found", last.path>>

\* a delete of an id that is not among the stored integrations
C24_Witness ==
    /\ last.op = "delete_integration"
    /\ last.status = 404
    /\ last.path = <<"b">>
    /\ BeforeSet.integrations = <<IntegrationA>>

(* C25: a successful delete stores the loaded list without the entries of  *)
(* that id, the others in their order, and the listing of the stored set   *)
(* no longer holds that id.                                                *)
C25_DeleteRemoves ==
    (last.op = "delete_integration" /\ last.stores)
    => /\ StoredInts =
            SelectSeq(BeforeSet.integrations, LAMBDA x : x.id # last.path)
       /\ \A i \in DOMAIN get_integrations(load(stored)) :
             get_integrations(load(stored))[i].id # last.path

(* C27: an add of a github integration without a token is answered 400     *)
(* with an error saying that a token is required for github, and stores    *)
(* nothing.                                                                *)
C27_GithubNeedsToken ==
    ( /\ last.op = "add_integration"
      /\ last.fault = "none"
      /\ last.req.provider_type = "github"
      /\ last.req.token = None )
    => /\ last.status = 400
       /\ last.msg = <<"Token is required for github">>
       /\ ~last.stores
       /\ stored = last.before

\* the custom-secret endpoints
CustomSecretOps ==
    {"create_custom_secret", "update_custom_secret", "delete_custom_secret"}

(* C29: a successful create, update or delete of a custom secret stores a  *)
(* set with the integrations list and the legacy map of the set the        *)
(* request loaded.                                                         *)
C29_CustomSecretsKeepCredentials ==
    (last.op \in CustomSecretOps /\ last.stores)
    => /\ StoredInts = BeforeSet.integrations
       /\ StoredTokens = BeforeSet.provider_tokens

\* the entry an update writes in the place of the entry it replaces
UpdatedEntry(existing) ==
    Integration(IF last.req.id # IdNone THEN last.req.id ELSE last.path,
                last.req,
                IF Falsy(last.req.token) THEN existing.token
                ELSE last.req.token)

(* C30: a successful add stores the loaded list with the new entry at the  *)
(* end; a successful update stores it with the entry of the path id        *)
(* replaced in place; a successful delete stores it without that entry;    *)
(* every other entry keeps its value and position, and the legacy map and  *)
(* the custom secrets stored are those of the loaded set.                  *)
C30_IntegrationFrame ==
    (last.op \in {"add_integration", "update_integration",
                  "delete_integration"} /\ last.stores)
    => /\ StoredTokens = BeforeSet.provider_tokens
       /\ StoredCustom = BeforeSet.custom_secrets
       /\ last.op = "add_integration"
          => StoredInts =
               NoTokenAsNone(Append(BeforeSet.integrations,
                   Integration(last.id, last.req, last.req.token)))
       /\ last.op = "update_integration"
          => /\ DOMAIN StoredInts = DOMAIN BeforeSet.integrations
             /\ \A i \in DOMAIN StoredInts :
                   StoredInts[i] =
                     IF BeforeSet.integrations[i].id = last.path
                     THEN NoTokenAsNone(
                              <<UpdatedEntry(BeforeSet.integrations[i])>>)[1]
                     ELSE BeforeSet.integrations[i]
       /\ last.op = "delete_integration"
          => StoredInts =
               SelectSeq(BeforeSet.integrations, LAMBDA x : x.id # last.path)

\* an update of the second of two integrations, next to a custom secret
C30_Witness ==
    /\ last.op = "update_integration"
    /\ last.stores
    /\ last.path = <<"b">>
    /\ Len(StoredInts) = 2
    /\ StoredInts[1] = IntegrationA
    /\ StoredInts[2] # IntegrationB
    /\ StoredCustom = <<SecretS1>>

\* both workers have answered, each after a successful store
BothStored ==
    \A i \in Workers : procs.p[i].pc = "done" /\ procs.p[i].stores

\* the number of stored integrations with the given id
CountId(id) ==
    Cardinality({k \in DOMAIN StoredInts : StoredInts[k].id = id})

\* the stored set holds what the request of worker i asked for, once
EffectStored(i) ==
    LET q == procs.p[i]
    IN  CASE q.op = "add_integration" ->
               /\ CountId(q.req.id) = 1
          [] q.op = "store_provider_tokens" ->
               /\ Cardinality({k \in DOMAIN StoredTokens :
                                 StoredTokens[k].key = q.req[1].key}) = 1
               /\ Get(StoredTokens, q.req[1].key)[1].token = q.req[1].token
          [] q.op = "update_integration" ->
               /\ CountId(q.path) = 1
               /\ \E k \in DOMAIN StoredInts :
                     /\ StoredInts[k].id = q.path
                     /\ StoredInts[k].name = q.req.name
                     /\ StoredInts[k].provider_type = q.req.provider_type
                     /\ StoredInts[k].token = q.req.token

C22_LastWriterWins ==
    \A i \in Workers :
        procs.w = i
        => /\ stored = procs.p[i].written
           /\ stored = store(Handle(procs.p[i].snapshot, procs.p[i]).value)

\* two overlapping requests on different fields, an add of integration 'b'
\* and an add-git-providers, both acknowledged, and the integration is not
\* in the stored set
C22_Witness ==
    /\ BothStored
    /\ procs.p[1].overlapped
    /\ procs.p[1].op = "add_integration"
    /\ procs.p[1].status = 201
    /\ procs.p[2].op = "store_provider_tokens"
    /\ procs.p[2].status = 200
    /\ procs.w = 2
    /\ Keys(StoredTokens) = {"github"}
    /\ procs.p[1].req.id \notin Ids(Loaded(stored).integrations)

\* the repositories the scan reaches
Scanned == {k \in DOMAIN svc.repos : k <= ScanLimit}

\* the returned list has a task of the given type for the item
HasTask(task_type, k, item) ==
    \E t \in DOMAIN svc.tasks :
        svc.tasks[t] = [task_type |-> task_type, repo |-> k,
                        issue_number |-> item.number, title |-> item.title]

GiteaOwnToken ==
    /\ svc.op = "_make_request"
    /\ svc.cls = "gitea"
    /\ ~svc.external_token_manager

(* C28: a GiteaService constructed without a token fails with 'Gitea token *)
(* is required' when it builds its headers, before any request is sent;    *)
(* one constructed with a token sends the Authorization header 'token '    *)
(* followed by the token.                                                  *)
C28_GiteaTokenRequired ==
    GiteaOwnToken
    => /\ svc.held = ""
          => /\ svc.outcome = "ValueError"
             /\ svc.error = "Gitea token is required"
             /\ svc.headers = <<>>
             /\ Sends(svc.log) = <<>>
       /\ svc.held # ""
          => /\ svc.error = ""
             /\ Len(svc.headers) = 1
             /\ svc.headers[1].Authorization = <<"token ", svc.held>>
             /\ Sends(svc.log) # <<>>
             /\ \A i \in DOMAIN Sends(svc.log) :
                   Sends(svc.log)[i].auth = svc.held

\* a GiteaService without a token asked to make a request: ValueError and
\* nothing sent
C28_Witness ==
    /\ GiteaOwnToken
    /\ svc.held = ""
    /\ svc.external_auth_token = ""
    /\ svc.error = "Gitea token is required"
    /\ svc.log = <<>>


\* the ways a _make_request ends: the parsed response, or an error of the
\* adapter's taxonomy
TranslatedOutcomes ==
    {"ok", "AuthenticationError", "ResourceNotFoundError", "UnknownException"}

(* C31: whatever the provider answers, a _make_request ends: it sends at   *)
(* most two requests, calls get_latest_token() at most once after the      *)
(* first, and a call that sent a request returns the response or raises    *)
(* a translated error.                                                     *)
C31_AtMostTwoRequests ==
    svc.op = "_make_request"
    => /\ Len(Sends(svc.log)) <= 2
       /\ Cardinality(RefreshesAfterSend(svc.log)) <= 1
       /\ Len(svc.log) <= 3
       /\ svc.outcome # "none"
       /\ Sends(svc.log) # <<>> => svc.outcome \in TranslatedOutcomes

\* a request answered 401 twice: two requests sent, then AuthenticationError
C31_Witness ==
    /\ svc.op = "_make_request"
    /\ svc.r1 = 401
    /\ svc.r2 = 401
    /\ svc.refresh
    /\ Len(Sends(svc.log)) = 2
    /\ svc.outcome = "AuthenticationError"


\* a call of invalidate_legacy_secrets_store has run to its end with a
\* non-empty provider-token map: only such a call stores the settings
MovedOnce == settings.settings_stores > 0

(* C32: once invalidate_legacy_secrets_store has run successfully for      *)
(* settings with a non-empty provider-token map, the stored settings have  *)
(* an empty secrets_store, and every later call with the settings loaded   *)
(* again stores nothing in either store and returns None.                  *)
C32_LegacyMoveOnce ==
    [][ MovedOnce
        => /\ settings.secrets_store.provider_tokens = <<>>
           /\ settings.secrets_store.integrations = <<>>
           /\ settings.secrets_store.custom_secrets = <<>>
           /\ stored' = stored
           /\ settings'.secrets_store = settings.secrets_store
           /\ settings'.secrets_stores = settings.secrets_stores
           /\ settings'.settings_stores = settings.settings_stores
           /\ settings'.returned = "None" ]_vars

\* a second call after the move: nothing stored, None returned
C32_Witness ==
    /\ settings.runs >= 2
    /\ settings.settings_stores = 1
    /\ settings.secrets_stores = 1
    /\ settings.returned = "None"
    /\ StoredTokens # <<>>


\* the endpoints of the provider tokens and of the integrations
CredentialOps ==
    {"store_provider_tokens", "unset_provider_tokens", "add_integration",
     "update_integration", "delete_integration"}

(* C33: an exception raised by load, store or token validation inside      *)
(* add-git-providers, unset-provider-tokens or add, update or delete       *)
(* integration never leaves the handler: the request is answered, and a    *)
(* request in which a collaborator raised is answered 500 with the fixed   *)
(* generic message.  (The load of the provider-token dependency of         *)
(* add-git-providers happens before the handler and is left out.)          *)
C33_ExceptionsAnswered500 ==
    ( /\ last.op \in CredentialOps
      /\ ~(last.op = "store_provider_tokens" /\ last.fault = "load") )
    => /\ last.status # 0
       /\ last.msg # <<"raised">>
       /\ last.status = 500 => last.msg = <<"generic">>


\* the BASE_URL the claim gives an instance of its class and base_domain
ClaimedUrl(obj) ==
    IF obj.base_domain = <<>>
    THEN (IF obj.cls = "GiteaService" THEN Url("https://", "gitea.com")
          ELSE Url("https://", "codeberg.org"))
    ELSE IF HasScheme(obj.base_domain)
    THEN Url(obj.base_domain[1], obj.base_domain[2])
    ELSE Url("https://", obj.base_domain[1])

(* C34: every adapter instance targets https://gitea.com/api/v1 (Gitea)    *)
(* or https://codeberg.org/api/v1 (Forgejo) without a base_domain,         *)
(* https://D/api/v1 for a base_domain D without a scheme, and D/api/v1     *)
(* with the scheme kept and no second one for a base_domain that starts    *)
(* with http:// or https://.                                               *)
C34_BaseUrl ==
    \A i \in DOMAIN heap.objs :
        Attr(heap, i, "BASE_URL") = ClaimedUrl(heap.objs[i])

\* what an instance shows of itself
Observed(h, i) ==
    [token |-> Attr(h, i, "token"), BASE_URL |-> Attr(h, i, "BASE_URL")]

(* C35: constructing an adapter, or storing a refreshed token on one while *)
(* it builds its headers, changes neither the token nor the base URL any   *)
(* other instance shows, nor the class attributes later instances start    *)
(* from.                                                                   *)
C35_InstancesIsolated ==
    [][ /\ heap'.classes = ClassDefaults
        /\ \A j \in DOMAIN heap.objs :
              j # heap'.last.i => Observed(heap', j) = Observed(heap, j) ]_vars

\* a Forgejo instance without a token got one while building its headers,
\* next to a Gitea instance that still shows the class defaults
C35_Witness ==
    /\ Len(heap.objs) = 2
    /\ heap.last = [op |-> "headers", i |-> 2]
    /\ heap.objs[1].cls = "GiteaService"
    /\ heap.objs[1].token = <<>>
    /\ heap.objs[1].BASE_URL = <<>>
    /\ Observed(heap, 1) = ClassDefaults.GiteaService
    /\ heap.objs[2].cls = "ForgejoService"
    /\ Observed(heap, 2).token = "new"


(* C36: the limit sent by search_repositories and get_paginated_repos is   *)
(* min(per_page, 100), the limit sent by get_all_repositories is 100, and  *)
(* no limit sent is above 100.                                             *)
C36_LimitClamped ==
    /\ svc.op \in {"search_repositories", "get_paginated_repos"}
       => /\ svc.limit <= svc.per_page
          /\ svc.limit <= 100
          /\ svc.limit = svc.per_page \/ svc.limit = 100
    /\ svc.op = "get_all_repositories" => svc.limit = 100

\* a search asked for 101 repositories per page sends the limit 100
C36_Witness ==
    /\ svc.op = "search_repositories"
    /\ svc.per_page = 101
    /\ svc.limit = 100
    /\ Len(Sends(svc.log)) = 1

\* the two characters are the same letter in either case, or the same
\* character
SameFolded(a, b) ==
    \/ a = b
    \/ \E i \in DOMAIN UpperChars :
          {a, b} = {UpperChars[i], LowerChars[i]}

\* the name holds the query at some offset, case ignored
HoldsIgnoringCase(name, query) ==
    \E k \in 0..(Len(name) - Len(query)) :
        \A j \in 1..Len(query) : SameFolded(name[k + j], query[j])

\* the positions in the full list of the branches that hold the query
Hits == {i \in DOMAIN svc.remote : HoldsIgnoringCase(svc.remote[i], svc.query)}

\* the positions of the first n hits
FirstHits(n) ==
    {i \in Hits : Cardinality({j \in Hits : j < i}) < n}

(* C38: search_branches returns the first per_page branches of the full    *)
(* list whose name holds the query, case ignored, in the order of the      *)
(* list, and nothing else.                                                 *)
C38_SearchBranches ==
    (svc.op = "search_branches" /\ svc.outcome = "ok")
    => /\ Len(svc.found) = 1
       /\ Len(svc.found[1]) = Cardinality(FirstHits(svc.per_page))
       /\ \A n \in DOMAIN svc.found[1] :
             \E i \in FirstHits(svc.per_page) :
                 /\ Cardinality({j \in Hits : j < i}) = n - 1
                 /\ svc.found[1][n] = svc.remote[i]

\* three branches, two of them hold the query in another case, one asked
\* for: the first of the two is returned
C38_Witness ==
    /\ svc.op = "search_branches"
    /\ svc.outcome = "ok"
    /\ svc.remote = << <<"B">>, <<"A", "b">>, <<"b", "a">> >>
    /\ svc.query = <<"a">>
    /\ svc.per_page = 1
    /\ svc.found = << << <<"A", "b">> >> >>


(***************************************************************************)
(* Deserialization of raw input: UserSecrets.model_validate(raw) runs the  *)
(* validator on what the storage held, which may be no dictionary at all   *)
(* or may hold entries the conversions cannot read.                        *)
(***************************************************************************)
NotADictionary == "UserSecrets must be initialized with a dictionary"

\* an input that is no dict (a list, a string): it has no keys
NotADict ==
    [is_dict |-> FALSE, provider_tokens |-> <<>>, custom_secrets |-> <<>>,
     integrations |-> <<>>]

\* the validator from its first line: a non-dict raises ValueError and no
\* UserSecrets is built
model_validate(raw) ==
    IF ~raw.is_dict
    THEN [error |-> NotADictionary, set |-> <<>>]
    ELSE [error |-> "", set |-> <<convert_dict_to_mappingproxy(raw)>>]

\* raw provider_tokens entries: readable, with an unreadable value, under a
\* key that is no provider type
RawEntries ==
    {[key |-> "github", token |-> "t1", host |-> None, user_id |-> None],
     [key |-> "github", token |-> Unsupported, host |-> None, user_id |-> None],
     [key |-> "gitlab", token |-> None, host |-> "h1", user_id |-> None],
     [key |-> "bogus", token |-> "t2", host |-> None, user_id |-> None]}

SecretBad == [key |-> "s3", secret |-> Unsupported, description |-> ""]

IntegrationBad ==
    [id |-> <<"x">>, provider_type |-> "gitea", name |-> <<"X">>,
     host |-> "h1", token |-> Unsupported, user_id |-> None]

\* the lists of at most two members of a set, without repetition
UpToTwo(S) ==
    {<<>>} \cup {<<a>> : a \in S}
    \cup {p \in {<<a, b>> : a \in S, b \in S} : p[1] # p[2]}

RawMaps == {m \in UpToTwo(RawEntries) : Len(m) = 2 => m[1].key # m[2].key}

RawInputs ==
    {NotADict}
    \cup [is_dict : {TRUE}, provider_tokens : RawMaps,
          custom_secrets : UpToTwo({SecretS1, SecretS2, SecretBad}),
          integrations : UpToTwo({IntegrationA, IntegrationB, IntegrationBad})]

InitLoad ==
    /\ \E raw \in RawInputs : ser = [NoSer EXCEPT !.data0 = <<raw>>]
    /\ stored = NoSecrets
    /\ last = NoRequest
    /\ procs = NoProcs
    /\ settings = NoSettings
    /\ heap = NoHeap
    /\ gen = NoGen
    /\ svc = NoSvc

\* UserSecrets.model_validate(raw)
ModelValidate ==
    /\ ser.op = "init"
    /\ LET r == model_validate(ser.data0[1])
       IN  ser' = [ser EXCEPT !.op = "model_validate", !.set = r.set,
                              !.error = r.error]
    /\ UNCHANGED <<stored, last, gen, svc, procs, settings, heap>>

NextLoad == ModelValidate

SpecLoad == InitLoad /\ [][NextLoad]_vars

\* what the claim calls a valid entry of each field
ReadableToken(e) == e.key \in ProviderTypeEnum /\ e.token # Unsupported

ReadableValue(e) == e.secret # Unsupported

ReadableItem(item) == item.token # Unsupported

\* C37: deserializing drops a provider_tokens entry with an unrecognized
\* provider type or an invalid token value, an invalid custom secret and an
\* invalid integration item, and loads every valid entry unchanged and in
\* order; input that is not a dictionary is rejected with an error and
\* yields no UserSecrets.
C37_BadEntriesDropped ==
    ser.op = "model_validate"
    => LET raw == ser.data0[1]
       IN  IF ~raw.is_dict
           THEN ser.error # "" /\ ser.set = <<>>
           ELSE /\ ser.error = ""
                /\ Len(ser.set) = 1
                /\ ser.set[1].provider_tokens
                       = SelectSeq(raw.provider_tokens, ReadableToken)
                /\ ser.set[1].custom_secrets
                       = SelectSeq(raw.custom_secrets, ReadableValue)
                /\ raw.integrations # <<>>
                       => ser.set[1].integrations
                              = SelectSeq(raw.integrations, ReadableItem)

\* a dictionary with a bad entry in each field next to a valid one was
\* loaded
C37_Witness ==
    /\ ser.op = "model_validate"
    /\ ser.data0[1].is_dict
    /\ \E i \in DOMAIN ser.data0[1].provider_tokens :
           ~ReadableToken(ser.data0[1].provider_tokens[i])
    /\ \E i \in DOMAIN ser.data0[1].custom_secrets :
           ~ReadableValue(ser.data0[1].custom_secrets[i])
    /\ \E i \in DOMAIN ser.data0[1].integrations :
           ~ReadableItem(ser.data0[1].integrations[i])
    /\ ser.set # <<>>
    /\ ser.set[1].provider_tokens # <<>>
    /\ ser.set[1].custom_secrets # <<>>
    /\ ser.set[1].integrations # <<>>

====
